---- MODULE Spec2Model ----
(***************************************************************************)
(* Model of the Serverless plugin's remote deployment orchestration:       *)
(*   ServerlessPlugin.deployServiceRemote, inspectStack,                    *)
(*   validateEnvironmentVariables, deployServiceLocal (index.ts) and the    *)
(*   parts of StackInspector.inspectStack (stack-inspector.ts) the          *)
(*   orchestrator observes.                                                 *)
(*                                                                         *)
(* Strings are TLA+ strings; a message built by a template literal is the  *)
(* sequence of its fragments (literal text and interpolated values), so    *)
(* concatenation is \o on sequences.  JavaScript objects whose key order   *)
(* matters (environmentVariables, resolved) are sequences of name/value    *)
(* pairs in insertion order.  process.env is a function whose domain is    *)
(* the set of defined names.                                               *)
(***************************************************************************)
EXTENDS Integers, Sequences, FiniteSets, TLC

VARIABLES
    \* ServerlessPlugin.deployServiceRemote
    pc,               \* position of the deployServiceRemote request
    deps,             \* service.dependencies
    environment,      \* options.environment
    defaultProfile,   \* this.config.stackInspection?.defaultProfile
    stackInspector,   \* this.stackInspector is set (enableRemoteDeployment)
    idx,              \* index in deps of the dependency being processed
    inspectionResult, \* const inspectionResult of the current iteration
    validation,       \* const validation of the current iteration
    caught,           \* the error thrown inside the try block
    thrown,           \* the error the request's promise rejected with
    trace,            \* the steps the request has taken, in order
    \* the process
    env,              \* process.env
    events,           \* notifications emitted on the event bus, in order
    \* StackInspector.inspectStack
    ipc,              \* position of the inspectStack call
    stackName,        \* argument stackName
    profileConfig,    \* argument profileConfig
    parameterStore,   \* the parameters the configuration store holds
    cloudFormationClient, \* this.cloudFormationClient
    ssmClient,        \* this.ssmClient
    stackData,        \* const stackData (the stack descriptor)
    pathIndex,        \* index in pathPatterns of the next prefix to probe
    ssmParameters,    \* const ssmParameters of extractSSMParameters
    probed,           \* the prefixes probed so far and how each probe went
    errorMessage,     \* const errorMessage of the catch block of inspectStack
    returned,         \* the StackInspectionResult the call resolved with
    \* ServerlessDependencyScanner.scanDependencies
    spc,              \* position of the scanDependencies call
    configPath,       \* argument configPath
    projectRoot,      \* argument projectRoot
    file,             \* the file the file system holds at configPath
    accesses,         \* the file-system operations performed, in order
    content,          \* const content (the parsed document)
    ssmDeps,          \* const ssmDeps
    scanned,          \* the array the call resolved with
    previous,         \* the array the call before this one resolved with
    scans,            \* the number of scanDependencies calls made
    \* ServerlessPatternDetector.scan
    dpc,              \* position of the scan call
    detectorRoot,     \* this.projectRoot
    found,            \* the config files the glob finds, in its order
    pending,          \* the indices of the parseService calls not settled
    parsed,           \* what each parseService call resolved with
    pattern,          \* the ServerlessPattern the call resolved with
    \* ServerlessPlugin.deployServiceLocal
    lpc,              \* position of the deployServiceLocal call
    service,          \* argument service
    configExists,     \* fs.existsSync(service.configFile)
    options,          \* argument options
    commands,         \* the argument lists the CLI was spawned with, in order
    serviceOutputs,   \* const outputs
    localCaught,      \* the error thrown inside the try block
    localThrown,      \* the error the call's promise rejected with
    \* ServerlessPlugin and ServerlessHotReload over the plugin's lifetime
    hpc,              \* position of the plugin between initialize and cleanup
    hotReload,        \* this.hotReload is set (hotReloading.enabled)
    listeners,        \* the event types the plugin has a listener on
    handled,          \* the bus events a listener of the plugin ran for
    watchers,         \* this.watchers: the watcher registered for each name
    opened,           \* the watchers created and not closed
    tasks,            \* the asynchronous calls suspended at an await
    calls,            \* the number of asynchronous calls started
    created           \* the number of watchers created

\* The state of one deployServiceRemote request.
pluginVars == <<pc, deps, environment, defaultProfile, stackInspector, idx,
                inspectionResult, validation, caught, thrown, trace>>

\* The state of one inspectStack call.
inspectorVars == <<ipc, stackName, profileConfig, parameterStore,
                   cloudFormationClient, ssmClient, stackData, pathIndex,
                   ssmParameters, probed, errorMessage, returned>>

\* The state of one scanDependencies call.
scannerVars == <<spc, configPath, projectRoot, file, accesses, content,
                 ssmDeps, scanned, previous, scans>>

\* What a scanDependencies call is given: its arguments, the file system,
\* and the calls made before it.
scanGiven == <<configPath, projectRoot, file, previous, scans>>

\* The state of one scan call of the pattern detector.
detectorVars == <<dpc, detectorRoot, found, pending, parsed, pattern>>

\* The state of one deployServiceLocal call.
localVars == <<lpc, service, configExists, options, commands, serviceOutputs,
               localCaught, localThrown>>

\* The plugin's listeners and the state of its ServerlessHotReload.
reloadVars == <<hpc, hotReload, listeners, handled, watchers, opened, tasks,
                calls, created>>

vars == <<pluginVars, env, events, inspectorVars, scannerVars, detectorVars,
          localVars, reloadVars>>

-----------------------------------------------------------------------------
(* Values *)

\* JavaScript undefined; distinct from every string of the model.
Undefined == "<undefined>"

\* No error pending / raised.
NoError == <<>>

\* Longest service.dependencies list explored.
MaxDeps == 2

StackNames == {"vpc-stack", "db-stack"}

\* Stack statuses returned by the control plane.
Statuses == {"CREATE_COMPLETE", "UPDATE_COMPLETE", "ROLLBACK_COMPLETE",
             "UPDATE_IN_PROGRESS"}

\* Messages of exceptions the control-plane clients raise.
ClientErrors == {"AccessDenied: not authorized", "socket hang up"}

\* options.environment
Environments == {Undefined, "prod"}

\* stackInspection.defaultProfile
Profiles == {Undefined, "staging"}

\* Sequences over S of length at most n.
SeqUpTo(S, n) == UNION {[1..k -> S] : k \in 0..n}

\* Initial contents of process.env: an ambient value, an environment-scoped
\* override, both or neither for DB_HOST, or an empty ambient API_KEY next
\* to an ambient AWS_PROFILE.
InitialEnvs ==
    { <<>>,
      [k \in {"DB_HOST"} |-> "ambient-db"],
      [k \in {"PROD_DB_HOST"} |-> "override-db"],
      [k \in {"DB_HOST", "PROD_DB_HOST"} |->
          IF k = "DB_HOST" THEN "ambient-db" ELSE "override-db"],
      [k \in {"API_KEY", "AWS_PROFILE"} |->
          IF k = "API_KEY" THEN "" ELSE "ambient-profile"] }

\* A declared variable and its stack value.
Var(name, value) == [name |-> name, value |-> value]

\* requirements.environmentVariables as deployServiceRemote receives it
\* from inspectStack (typed any): ordered name/value pairs, names unique.  A
\* value of undefined is a declared variable without a stack value, the
\* case the missing-variable branch handles.
EnvVarMaps ==
    { <<>>,
      <<Var("DB_HOST", "x")>>,
      <<Var("DB_HOST", "y")>>,
      <<Var("DB_HOST", Undefined)>>,
      <<Var("API_KEY", "x")>>,
      <<Var("AWS_PROFILE", "x")>>,
      <<Var("DB_HOST", "x"), Var("API_KEY", "y")>>,
      <<Var("API_KEY", Undefined), Var("DB_HOST", "x")>>,
      <<Var("API_KEY", Undefined), Var("DB_HOST", Undefined)>> }

-----------------------------------------------------------------------------
(* Strings *)

\* s[i - 1] of JavaScript: the character at position i, counted from 1.
CharAt(s, i) == SubSeq(s, i, i)

LowerCaseLetters == "abcdefghijklmnopqrstuvwxyz"
UpperCaseLetters == "ABCDEFGHIJKLMNOPQRSTUVWXYZ"
Digits == "0123456789"

\* The characters of a string, as a set.
CharsOf(s) == {CharAt(s, i) : i \in 1..Len(s)}

\* The character classes [a-z], [A-Z], [a-zA-Z0-9] and \s.
IsLower(c) == c \in CharsOf(LowerCaseLetters)
IsUpper(c) == c \in CharsOf(UpperCaseLetters)
IsAlphaNumeric(c) == IsLower(c) \/ IsUpper(c) \/ c \in CharsOf(Digits)
IsWhiteSpace(c) == c \in {" ", "\t", "\n", "\r"}

\* The position of a letter in its alphabet.
LetterIndex(c, letters) ==
    CHOOSE i \in 1..Len(letters) : CharAt(letters, i) = c

\* String.prototype.toUpperCase
RECURSIVE ToUpperCase(_)
ToUpperCase(s) ==
    IF s = "" THEN ""
    ELSE (IF IsLower(Head(s))
          THEN CharAt(UpperCaseLetters, LetterIndex(Head(s), LowerCaseLetters))
          ELSE Head(s)) \o ToUpperCase(Tail(s))

\* String.prototype.toLowerCase
RECURSIVE ToLowerCase(_)
ToLowerCase(s) ==
    IF s = "" THEN ""
    ELSE (IF IsUpper(Head(s))
          THEN CharAt(LowerCaseLetters, LetterIndex(Head(s), UpperCaseLetters))
          ELSE Head(s)) \o ToLowerCase(Tail(s))

\* s.startsWith(sub, i - 1): sub occurs in s at position i.
OccursAt(s, sub, i) ==
    /\ i >= 1
    /\ i + Len(sub) - 1 <= Len(s)
    /\ SubSeq(s, i, i + Len(sub) - 1) = sub

\* String.prototype.startsWith and endsWith
StartsWith(s, sub) == OccursAt(s, sub, 1)
EndsWithText(s, sub) == OccursAt(s, sub, Len(s) - Len(sub) + 1)

\* s.indexOf(sub) + 1: the first position of sub in s, 0 when there is none.
IndexOf(s, sub) ==
    IF \E i \in 1..(Len(s) + 1) : OccursAt(s, sub, i)
    THEN CHOOSE i \in 1..(Len(s) + 1) :
            /\ OccursAt(s, sub, i)
            /\ \A j \in 1..(i - 1) : ~OccursAt(s, sub, j)
    ELSE 0

\* String.prototype.includes
Includes(s, sub) == IndexOf(s, sub) # 0

\* s.replace(sub, ''): the first occurrence of the string sub is removed.
RemoveFirst(s, sub) ==
    LET i == IndexOf(s, sub)
    IN  IF i = 0 THEN s
        ELSE SubSeq(s, 1, i - 1) \o SubSeq(s, i + Len(sub), Len(s))

\* The longest prefix of s made of characters of the set cs (a greedy
\* character class), as a length.
RECURSIVE RunLength(_, _)
RunLength(s, cs) ==
    IF s = "" \/ Head(s) \notin cs THEN 0 ELSE 1 + RunLength(Tail(s), cs)

\* The longest prefix of s made of characters outside the set cs.
RECURSIVE RunLengthNot(_, _)
RunLengthNot(s, cs) ==
    IF s = "" \/ Head(s) \in cs THEN 0 ELSE 1 + RunLengthNot(Tail(s), cs)

\* s.replace(/^\/+/, '')
StripLeadingSlashes(s) == SubSeq(s, RunLength(s, {"/"}) + 1, Len(s))

\* String.prototype.trim
RECURSIVE TrimEnd(_)
TrimEnd(s) ==
    IF s = "" \/ ~IsWhiteSpace(CharAt(s, Len(s))) THEN s
    ELSE TrimEnd(SubSeq(s, 1, Len(s) - 1))
Trim(s) ==
    LET t == TrimEnd(s)
    IN  SubSeq(t, RunLength(t, {" ", "\t", "\n", "\r"}) + 1, Len(t))

\* String.prototype.split on a one-character separator.
RECURSIVE Split(_, _)
Split(s, sep) ==
    LET n == RunLengthNot(s, {sep})
    IN  IF n = Len(s) THEN <<s>>
        ELSE <<SubSeq(s, 1, n)>> \o Split(SubSeq(s, n + 2, Len(s)), sep)

\* JavaScript truthiness of an optional string.
Truthy(s) == s # Undefined /\ s # ""

\* obj[name] = value on an ordered name/value object: a new name is added
\* last, an existing name keeps its place and takes the new value.
Assign(m, name, value) ==
    IF \E i \in DOMAIN m : m[i].name = name
    THEN [i \in DOMAIN m |->
            IF m[i].name = name THEN [name |-> name, value |-> value]
            ELSE m[i]]
    ELSE Append(m, [name |-> name, value |-> value])

\* {...a, ...b}
RECURSIVE Spread(_, _)
Spread(a, b) ==
    IF b = <<>> THEN a
    ELSE Spread(Assign(a, b[1].name, b[1].value), Tail(b))

\* [...new Set(seq)]: the elements in order of first occurrence.
RECURSIVE Distinct(_)
Distinct(seq) ==
    IF seq = <<>> THEN <<>>
    ELSE LET init == Distinct(SubSeq(seq, 1, Len(seq) - 1))
             last == seq[Len(seq)]
         IN  IF \E i \in DOMAIN init : init[i] = last
             THEN init ELSE Append(init, last)

-----------------------------------------------------------------------------
(* Helpers *)

\* process.env[name]
Get(e, name) == IF name \in DOMAIN e THEN e[name] ELSE Undefined

\* process.env[name] = value
Put(e, name, value) ==
    [k \in DOMAIN e \cup {name} |-> IF k = name THEN value ELSE e[k]]

\* Array.prototype.join on fragments: the elements separated by sep.
RECURSIVE Join(_, _)
Join(seq, sep) ==
    IF seq = <<>> THEN <<>>
    ELSE IF Len(seq) = 1 THEN <<seq[1]>>
    ELSE <<seq[1], sep>> \o Join(Tail(seq), sep)

\* Object.keys of an ordered name/value object.
Keys(m) == [i \in DOMAIN m |-> m[i].name]

\* obj[name] of an ordered name/value object.
Lookup(m, name) ==
    IF \E i \in DOMAIN m : m[i].name = name
    THEN m[CHOOSE i \in DOMAIN m : m[i].name = name].value
    ELSE Undefined

\* A notification on the event bus.
Event(type, success, error) ==
    [type |-> type, success |-> success, error |-> error]

\* One record of the request's trace: the step taken, the dependency it
\* was taken for, the process environment it ran against, the variables it
\* resolved or wrote, and whether the request went on after it.
Step(op, dep, e, v, ok) ==
    [op |-> op, dep |-> dep, env |-> e, vars |-> v, ok |-> ok]

\* The value of inspectionResult / validation outside an iteration.
NoResult ==
    [success |-> FALSE, error |-> NoError, status |-> Undefined,
     readyForDeployment |-> FALSE, environmentVariables |-> <<>>]
NoValidation == [valid |-> FALSE, missing |-> <<>>, resolved |-> <<>>]

-----------------------------------------------------------------------------
(* StackInspector *)

\* Mutant of IsStackReady: every status ending in _COMPLETE is ready.
IsStackSettled(status) ==
    status # Undefined /\ EndsWithText(status, "_COMPLETE")

\* StackInspector.isStackReady
IsStackReady(status) == status \in {"CREATE_COMPLETE", "UPDATE_COMPLETE"}

\* StackInspector.initializeClients as called by the plugin (profile and
\* region only): a configured profile is written to process.env.AWS_PROFILE.
InitializeClients(e, profile) ==
    IF profile # Undefined THEN Put(e, "AWS_PROFILE", profile) ELSE e

\* What the control plane answers to one inspectStack call.
InspectionOutcomes ==
    [kind : {"exception"}, error : ClientErrors,
     status : {Undefined}, environmentVariables : {<<>>}]
    \cup [kind : {"not-found"}, error : {Undefined},
          status : {Undefined}, environmentVariables : {<<>>}]
    \cup [kind : {"found"}, error : {Undefined},
          status : Statuses, environmentVariables : EnvVarMaps]

\* StackInspector.inspectStack: the result returned for an outcome.
InspectorResult(dependency, o) ==
    CASE o.kind = "exception" ->
           [NoResult EXCEPT !.error = <<o.error>>]
      [] o.kind = "not-found" ->
           [NoResult EXCEPT
              !.error = <<"Stack '", dependency, "' not found or not accessible">>]
      [] OTHER ->
           [success |-> TRUE, error |-> NoError, status |-> o.status,
            readyForDeployment |-> IsStackReady(o.status),
            environmentVariables |-> o.environmentVariables]

\* StackInspector.inspectStack: the notifications emitted for an outcome.
InspectorEvents(o) ==
    <<Event("serverless:before:stack-inspection", TRUE, NoError)>> \o
    CASE o.kind = "exception" ->
           <<Event("serverless:stack:inspection:failed", FALSE, <<o.error>>)>>
      [] o.kind = "not-found" -> <<>>
      [] OTHER ->
           <<Event("serverless:after:stack-inspection", TRUE, NoError)>>

-----------------------------------------------------------------------------
(* ServerlessPlugin.validateEnvironmentVariables *)

\* Mutant of Sources: the environment-scoped override is consulted first.
SourcesOverrideFirst(e, label, v) ==
    << Get(e, ToUpperCase(label) \o "_" \o v.name),
       Get(e, v.name),
       v.value >>

\* Mutant of Sources: the stack value is not a source.
SourcesWithoutStack(e, label, v) ==
    << Get(e, v.name),
       Get(e, ToUpperCase(label) \o "_" \o v.name) >>

\* Mutant of Sources: the stack value is consulted first.
SourcesStackFirst(e, label, v) ==
    << v.value,
       Get(e, v.name),
       Get(e, ToUpperCase(label) \o "_" \o v.name) >>

\* The sources of one variable, in the order they are consulted.
Sources(e, label, v) ==
    << Get(e, v.name),
       Get(e, ToUpperCase(label) \o "_" \o v.name),
       v.value >>

\* sources.find(v => v !== undefined)
FirstDefined(sources) ==
    IF \E i \in DOMAIN sources : sources[i] # Undefined
    THEN sources[CHOOSE i \in DOMAIN sources :
                   /\ sources[i] # Undefined
                   /\ \A j \in 1..(i - 1) : sources[j] = Undefined]
    ELSE Undefined

\* The loop over Object.entries(stackRequirements.environmentVariables).
RECURSIVE ResolveLoop(_, _, _, _)
ResolveLoop(e, label, entries, acc) ==
    IF entries = <<>> THEN acc
    ELSE LET v == Head(entries)
             resolvedValue == FirstDefined(Sources(e, label, v))
         IN  ResolveLoop(e, label, Tail(entries),
               IF resolvedValue # Undefined
               THEN [acc EXCEPT !.resolved =
                        Append(@, [name |-> v.name, value |-> resolvedValue])]
               ELSE [acc EXCEPT !.missing = Append(@, v.name)])

\* Mutant of ValidateEnvironmentVariables: valid when something resolved.
ValidateWhenAnyResolved(e, label, environmentVariables) ==
    LET r == ResolveLoop(e, label, environmentVariables,
                         [missing |-> <<>>, resolved |-> <<>>])
    IN  [valid |-> Len(r.resolved) > 0,
         missing |-> r.missing,
         resolved |-> r.resolved]

\* The value validateEnvironmentVariables returns.
ValidateEnvironmentVariables(e, label, environmentVariables) ==
    LET r == ResolveLoop(e, label, environmentVariables,
                         [missing |-> <<>>, resolved |-> <<>>])
    IN  [valid |-> Len(r.missing) = 0,
         missing |-> r.missing,
         resolved |-> r.resolved]

\* The notifications validateEnvironmentVariables emits for a result.
ValidationEvents(v) ==
    << Event("serverless:before:environment-validation", TRUE, NoError),
       IF v.valid
       THEN Event("serverless:environment:validated", TRUE, NoError)
       ELSE Event("serverless:environment:validation:failed", FALSE,
                  [i \in DOMAIN v.missing |->
                     "Missing required environment variable: " \o v.missing[i]]) >>

-----------------------------------------------------------------------------
(* Errors thrown by deployServiceRemote and inspectStack *)

NotEnabledMessage ==
    <<"Stack inspection is not enabled. Set enableRemoteDeployment: true in plugin config.">>

\* Mutant of InspectionFailedMessage: the inspector's error is left out.
InspectionFailedGeneric(dependency, result) ==
    <<"Stack inspection failed for ", dependency>>

InspectionFailedMessage(dependency, result) ==
    <<"Stack inspection failed for ", dependency, ": ">> \o result.error

NotReadyMessage(dependency, result) ==
    <<"Stack ", dependency, " is not ready for deployment. Status: ", result.status>>

\* One line of the recommendations: `  - Set ${v}=${stack value || '<value>'}`
Recommendation(v, environmentVariables) ==
    LET candidate == Lookup(environmentVariables, v)
    IN  <<"  - Set ", v, "=",
          IF candidate = Undefined \/ candidate = "" THEN "<value>" ELSE candidate>>

RECURSIVE RecommendationLines(_, _)
RecommendationLines(missing, environmentVariables) ==
    IF missing = <<>> THEN <<>>
    ELSE IF Len(missing) = 1 THEN Recommendation(missing[1], environmentVariables)
    ELSE Recommendation(missing[1], environmentVariables) \o <<"\n">>
         \o RecommendationLines(Tail(missing), environmentVariables)

\* Mutant of MissingVariablesMessage: only the first missing variable is
\* reported.
MissingVariablesFirstOnly(v, environmentVariables) ==
    <<"Missing required environment variables: ", v.missing[1]>>
    \o <<"\n", "Available from stack: ">> \o Join(Keys(environmentVariables), ", ")
    \o <<"\n", "Recommendations:\n">>
    \o Recommendation(v.missing[1], environmentVariables)

MissingVariablesMessage(v, environmentVariables) ==
    <<"Missing required environment variables: ">> \o Join(v.missing, ", ")
    \o <<"\n", "Available from stack: ">> \o Join(Keys(environmentVariables), ", ")
    \o <<"\n", "Recommendations:\n">>
    \o RecommendationLines(v.missing, environmentVariables)

-----------------------------------------------------------------------------
(* ServerlessPlugin.deployServiceLocal *)

\* How one run of deployServiceLocal ends.
LocalOutcomes ==
    {"deployed", "no-config", "no-cli", "package-failed", "deploy-failed",
     "watch-failed"}

LocalError(outcome) ==
    CASE outcome = "deployed"   -> NoError
      [] outcome = "no-config"  ->
           <<"Serverless configuration file not found: ", "serverless.yml">>
      [] outcome = "no-cli"     ->
           <<"Serverless Framework CLI not found. Please install it: npm install -g serverless">>
      [] outcome = "watch-failed" -> <<"watcher error">>
      [] OTHER -> <<"Serverless command failed with code ", "1", ": ", "stderr">>

\* The notifications deployServiceLocal emits.
LocalEvents(outcome) ==
    LET before   == <<Event("serverless:before:service-deploy", TRUE, NoError)>>
        package  == <<Event("serverless:before:service-package", TRUE, NoError)>>
        packaged == <<Event("serverless:after:service-package", TRUE, NoError)>>
        ok       == <<Event("serverless:after:service-deploy", TRUE, NoError)>>
        failed   == <<Event("serverless:after:service-deploy", FALSE,
                            LocalError(outcome))>>
    IN  CASE outcome = "deployed"       -> before \o package \o packaged \o ok
          [] outcome \in {"no-config", "no-cli"} -> before \o failed
          [] outcome = "package-failed" -> before \o package \o failed
          [] outcome = "deploy-failed"  -> before \o package \o packaged \o failed
          [] OTHER -> before \o package \o packaged \o ok \o failed

-----------------------------------------------------------------------------
(* ServerlessPlugin.deployServiceRemote *)

StartedEvent == Event("serverless:remote:deploy:started", TRUE, NoError)
CompletedEvent(success, error) ==
    Event("serverless:remote:deploy:completed", success, error)

\* environment || 'default'
EnvironmentLabel ==
    IF environment = Undefined \/ environment = "" THEN "default" ELSE environment

\* Mutant of InjectAll: nothing is written.
InjectNothing(e, resolved) == e

\* for (const [varName, value] of Object.entries(validation.resolved))
\*   process.env[varName] = value
RECURSIVE InjectAll(_, _)
InjectAll(e, resolved) ==
    IF resolved = <<>> THEN e
    ELSE InjectAll(Put(e, Head(resolved).name, Head(resolved).value),
                   Tail(resolved))

\* Mutant of AfterIteration: the loop ends after its first iteration.
AfterIterationBreak ==
    /\ idx' = idx
    /\ pc' = "deploying"

\* The position after the last statement of one loop iteration.
AfterIteration ==
    IF idx < Len(deps)
    THEN /\ idx' = idx + 1
         /\ pc' = "inspecting"
    ELSE /\ idx' = idx
         /\ pc' = "deploying"

\* No inspectStack call is under way.
InspectorIdle ==
    /\ ipc = "idle"
    /\ stackName = Undefined
    /\ profileConfig = Undefined
    /\ parameterStore = <<>>
    /\ cloudFormationClient = Undefined
    /\ ssmClient = Undefined
    /\ stackData = Undefined
    /\ pathIndex = 0
    /\ ssmParameters = <<>>
    /\ probed = <<>>
    /\ errorMessage = Undefined
    /\ returned = Undefined

\* The file-system entry of a path at which there is no file.
NoFile ==
    [exists |-> FALSE, size |-> 0, readable |-> FALSE, parseable |-> FALSE,
     document |-> <<>>]

\* No scanDependencies call is under way.
ScannerIdle ==
    /\ spc = "idle"
    /\ configPath = Undefined
    /\ projectRoot = Undefined
    /\ file = NoFile
    /\ accesses = <<>>
    /\ content = <<>>
    /\ ssmDeps = <<>>
    /\ scanned = <<>>
    /\ previous = <<>>
    /\ scans = 0

\* The pattern of a detector that has not returned one.
NoPattern == [type |-> Undefined, services |-> <<>>]

\* No scan call of the pattern detector is under way.
DetectorIdle ==
    /\ dpc = "idle"
    /\ detectorRoot = Undefined
    /\ found = <<>>
    /\ pending = {}
    /\ parsed = <<>>
    /\ pattern = NoPattern

\* The arguments of a deployServiceLocal call that has not been made.
NoService == [name |-> Undefined, path |-> Undefined, configFile |-> Undefined]
NoOptions == [stage |-> Undefined, region |-> Undefined, dryRun |-> FALSE]

\* No deployServiceLocal call is under way.
LocalIdle ==
    /\ lpc = "idle"
    /\ service = NoService
    /\ configExists = FALSE
    /\ options = NoOptions
    /\ commands = <<>>
    /\ serviceOutputs = <<>>
    /\ localCaught = NoError
    /\ localThrown = NoError

\* The names of the services of the project.
ServiceNames == {"api", "worker"}

\* The entry of this.watchers for a name without a watcher.
NoWatcher == [id |-> 0, service |-> Undefined]

\* A watcher chokidar.watch returned for the service of the name.
Watcher(id, name) == [id |-> id, service |-> name]

\* The plugin as constructed: initialize has not run.
ReloadIdle ==
    /\ hpc = "constructed"
    /\ hotReload = FALSE
    /\ listeners = {}
    /\ handled = <<>>
    /\ watchers = [n \in ServiceNames |-> NoWatcher]
    /\ opened = {}
    /\ tasks = {}
    /\ calls = 0
    /\ created = 0

Init ==
    /\ ScannerIdle
    /\ DetectorIdle
    /\ LocalIdle
    /\ ReloadIdle
    /\ pc = "idle"
    /\ deps \in SeqUpTo(StackNames, MaxDeps)
    /\ environment \in Environments
    /\ defaultProfile \in Profiles
    /\ stackInspector \in BOOLEAN
    /\ idx = 0
    /\ env \in InitialEnvs
    /\ events = <<>>
    /\ inspectionResult = NoResult
    /\ validation = NoValidation
    /\ caught = NoError
    /\ thrown = NoError
    /\ trace = <<>>
    /\ InspectorIdle

\* Mutant of Start: the dependencies are taken from the last one.
StartFromLast ==
    /\ pc = "idle"
    /\ events' = Append(events, StartedEvent)
    /\ IF Len(deps) > 0
       THEN /\ idx' = Len(deps)
            /\ pc' = "inspecting"
       ELSE /\ idx' = idx
            /\ pc' = "deploying"
    /\ UNCHANGED <<inspectorVars, scannerVars, detectorVars, localVars, reloadVars,
                   deps, environment, defaultProfile, stackInspector, env,
                   inspectionResult, validation, caught, thrown, trace>>

\* Entry: the started notification, then the first dependency, or the
\* delegated deployment when none is declared.
Start ==
    /\ pc = "idle"
    /\ events' = Append(events, StartedEvent)
    /\ IF Len(deps) > 0
       THEN /\ idx' = 1
            /\ pc' = "inspecting"
       ELSE /\ idx' = idx
            /\ pc' = "deploying"
    /\ UNCHANGED <<inspectorVars, scannerVars, detectorVars, localVars, reloadVars,
                   deps, environment, defaultProfile, stackInspector, env,
                   inspectionResult, validation, caught, thrown, trace>>

\* await this.inspectStack(stackName, ...) and the success check after it.
InspectDependency ==
    /\ pc = "inspecting"
    /\ IF ~stackInspector
       THEN /\ caught' = NotEnabledMessage
            /\ pc' = "catch"
            /\ trace' = Append(trace, Step("inspectStack", idx, env, <<>>, FALSE))
            /\ UNCHANGED <<env, events, inspectionResult>>
       ELSE \E o \in InspectionOutcomes :
              LET result == InspectorResult(deps[idx], o)
              IN  /\ env' = InitializeClients(env, defaultProfile)
                  /\ events' = events \o InspectorEvents(o)
                  /\ inspectionResult' = result
                  /\ trace' = Append(trace,
                         Step("inspectStack", idx, env, <<>>, result.success))
                  /\ IF ~result.success
                     THEN /\ caught' = InspectionFailedMessage(deps[idx], result)
                          /\ pc' = "catch"
                     ELSE /\ caught' = caught
                          /\ pc' = "readiness"
    /\ UNCHANGED <<inspectorVars, scannerVars, detectorVars, localVars, reloadVars,
                   deps, environment, defaultProfile, stackInspector, idx,
                   validation, thrown>>

\* Mutant of ReadinessGate: a stack that is not ready is let through.
ReadinessGateOpen ==
    /\ pc = "readiness"
    /\ pc' = "resolving"
    /\ trace' = Append(trace,
           Step("readiness", idx, env, <<>>, inspectionResult.readyForDeployment))
    /\ UNCHANGED <<inspectorVars, scannerVars, detectorVars, localVars, reloadVars,
                   deps, environment, defaultProfile, stackInspector, idx, env,
                   events, inspectionResult, validation, caught, thrown>>

\* if (!inspectionResult.requirements?.readyForDeployment) throw ...
ReadinessGate ==
    /\ pc = "readiness"
    /\ IF ~inspectionResult.readyForDeployment
       THEN /\ caught' = NotReadyMessage(deps[idx], inspectionResult)
            /\ pc' = "catch"
       ELSE /\ caught' = caught
            /\ pc' = "resolving"
    /\ trace' = Append(trace,
           Step("readiness", idx, env, <<>>, inspectionResult.readyForDeployment))
    /\ UNCHANGED <<inspectorVars, scannerVars, detectorVars, localVars, reloadVars,
                   deps, environment, defaultProfile, stackInspector, idx, env,
                   events, inspectionResult, validation, thrown>>

\* await this.validateEnvironmentVariables(...) and the valid check after it.
ResolveEnvironment ==
    /\ pc = "resolving"
    /\ LET v == ValidateEnvironmentVariables(env, EnvironmentLabel,
                    inspectionResult.environmentVariables)
       IN  /\ validation' = v
           /\ events' = events \o ValidationEvents(v)
           /\ trace' = Append(trace,
                  Step("validateEnvironmentVariables", idx, env, v.resolved,
                       v.valid))
           /\ IF ~v.valid
              THEN /\ caught' = MissingVariablesMessage(v,
                                    inspectionResult.environmentVariables)
                   /\ pc' = "catch"
              ELSE /\ caught' = caught
                   /\ pc' = "injecting"
    /\ UNCHANGED <<inspectorVars, scannerVars, detectorVars, localVars, reloadVars,
                   deps, environment, defaultProfile, stackInspector, idx, env,
                   inspectionResult, thrown>>

\* Step 3: the resolved variables are written to process.env; the iteration
\* ends and its block-scoped constants go out of scope.
InjectVariables ==
    /\ pc = "injecting"
    /\ env' = InjectAll(env, validation.resolved)
    /\ trace' = Append(trace, Step("inject", idx, env', validation.resolved, TRUE))
    /\ inspectionResult' = NoResult
    /\ validation' = NoValidation
    /\ AfterIteration
    /\ UNCHANGED <<inspectorVars, scannerVars, detectorVars, localVars, reloadVars,
                   deps, environment, defaultProfile, stackInspector, events,
                   caught, thrown>>

\* Step 4: await this.deployServiceLocal(service, options), then the
\* completed notification of the success path.
DeployLocal ==
    /\ pc = "deploying"
    /\ \E outcome \in LocalOutcomes :
         /\ trace' = Append(trace,
                Step("deployServiceLocal", 0, env, <<>>, outcome = "deployed"))
         /\ IF outcome = "deployed"
            THEN /\ events' = events \o LocalEvents(outcome)
                                \o <<CompletedEvent(TRUE, NoError)>>
                 /\ caught' = caught
                 /\ pc' = "success"
            ELSE /\ events' = events \o LocalEvents(outcome)
                 /\ caught' = LocalError(outcome)
                 /\ pc' = "catch"
    /\ UNCHANGED <<inspectorVars, scannerVars, detectorVars, localVars, reloadVars,
                   deps, environment, defaultProfile, stackInspector, idx, env,
                   inspectionResult, validation, thrown>>

\* Mutant of Catch: the error is thrown again without the notification.
CatchSilent ==
    /\ pc = "catch"
    /\ thrown' = caught
    /\ pc' = "failed"
    /\ UNCHANGED <<inspectorVars, scannerVars, detectorVars, localVars, reloadVars,
                   deps, environment, defaultProfile, stackInspector, idx, env,
                   events, inspectionResult, validation, caught, trace>>

\* Mutant of Catch: the error is swallowed and the deployment goes on.
CatchResume ==
    /\ pc = "catch"
    /\ pc' = "deploying"
    /\ UNCHANGED <<inspectorVars, scannerVars, detectorVars, localVars, reloadVars,
                   deps, environment, defaultProfile, stackInspector, idx, env,
                   events, inspectionResult, validation, caught, thrown, trace>>

\* Mutant of Catch: the process environment of the request's start is put
\* back before the error is thrown again.
CatchRestoring ==
    /\ pc = "catch"
    /\ events' = Append(events, CompletedEvent(FALSE, caught))
    /\ thrown' = caught
    /\ pc' = "failed"
    /\ env' = trace[1].env
    /\ UNCHANGED <<inspectorVars, scannerVars, detectorVars, localVars, reloadVars,
                   deps, environment, defaultProfile, stackInspector, idx,
                   inspectionResult, validation, caught, trace>>

\* The catch block: the completed notification with success false, then the
\* error is thrown again.
Catch ==
    /\ pc = "catch"
    /\ events' = Append(events, CompletedEvent(FALSE, caught))
    /\ thrown' = caught
    /\ pc' = "failed"
    /\ UNCHANGED <<inspectorVars, scannerVars, detectorVars, localVars, reloadVars,
                   deps, environment, defaultProfile, stackInspector, idx, env,
                   inspectionResult, validation, caught, trace>>

Next ==
    \/ Start
    \/ InspectDependency
    \/ ReadinessGate
    \/ ResolveEnvironment
    \/ InjectVariables
    \/ DeployLocal
    \/ Catch

Spec == Init /\ [][Next]_vars

-----------------------------------------------------------------------------
(* StackInspector.inspectStack, step by step *)

\* Names of the stacks inspected.
InspectedStackNames == {"vpc-stack", "DbStack"}

\* The other stack of the model.
OtherStack(name) == IF name = "vpc-stack" THEN "DbStack" ELSE "vpc-stack"

\* AWSProfileConfig values: nothing configured, a named profile with a
\* region, and explicit credentials given together with a profile.
ProfileConfigs ==
    { [profile |-> Undefined, region |-> Undefined,
       accessKeyId |-> Undefined, secretAccessKey |-> Undefined],
      [profile |-> "staging", region |-> "eu-west-1",
       accessKeyId |-> Undefined, secretAccessKey |-> Undefined],
      [profile |-> "staging", region |-> Undefined,
       accessKeyId |-> "AKIA", secretAccessKey |-> "secret"] }

\* process.env when inspectStack is called.
InspectorEnvs ==
    { <<>>,
      [k \in {"AWS_REGION", "AWS_PROFILE"} |->
          IF k = "AWS_REGION" THEN "ap-south-1" ELSE "default"] }

\* Stack statuses the control plane reports; Undefined is an absent status.
StackStatuses ==
    Statuses \cup {"UPDATE_ROLLBACK_COMPLETE", "CREATE_FAILED",
                   "DELETE_COMPLETE", Undefined}

\* Entries of a stack descriptor and of the configuration store.
Output(key, value) == [OutputKey |-> key, OutputValue |-> value]
Parameter(key, value) == [ParameterKey |-> key, ParameterValue |-> value]
Tag(key, value) == [Key |-> key, Value |-> value]
StoreParameter(name, value) == [Name |-> name, Value |-> value]

\* The identifier of a stack: an ARN whose resource is stack/<name>/<id>.
StackArn(name) ==
    "arn:aws:cloudformation:us-east-1:123456789012:stack/" \o name \o "/1a2b"

\* The Stack type of the control-plane client.
Stack(name, status, outputs, parameters, tags) ==
    [StackName |-> name, StackStatus |-> status, Outputs |-> outputs,
     Parameters |-> parameters, Tags |-> tags]

\* Descriptors the control plane may hold for a stack: plain outputs and
\* parameters under every status; outputs that embed the ARN of another
\* stack and of the stack itself, an output and a parameter with an empty
\* value, an output without a value, an output without a key; a
\* Dependencies tag that lists another
\* stack twice, or the stack itself; and a stack with none of these.  An
\* absent Outputs, Parameters or Tags list is the empty list: the code
\* iterates over neither.
Descriptors(name) ==
    { Stack(name, status,
            <<Output("VpcId", "vpc-1"), Output("DbHost", "h1")>>,
            <<Parameter("Stage", "prod"), Parameter("Suffix", "")>>,
            <<>>) : status \in StackStatuses }
    \cup
    { Stack(name, "CREATE_COMPLETE",
            <<Output("PeerStack", StackArn(OtherStack(name))),
              Output("SelfArn", StackArn(name)),
              Output("Note", ""),
              Output("Pending", Undefined),
              Output(Undefined, "orphan")>>,
            <<>>,
            <<Tag("Owner", "team"),
              Tag("Dependencies",
                  OtherStack(name) \o ", " \o OtherStack(name))>>),
      Stack(name, "UPDATE_COMPLETE",
            <<Output("PeerStack", StackArn(OtherStack(name)))>>,
            <<Parameter("Stage", "prod")>>,
            <<Tag("Dependencies", name \o "," \o OtherStack(name))>>),
      Stack(name, "UPDATE_COMPLETE", <<>>, <<>>, <<>>) }

\* An Error object.
Error(name, message) == [name |-> name, message |-> message]

\* Errors DescribeStacks rejects with.
DescribeErrors(name) ==
    { Error("Error", m) : m \in ClientErrors }
    \cup
    { Error("ValidationError", "Stack with id " \o name \o " does not exist"),
      Error("ValidationError", "1 validation error detected"),
      Error("Error", "ValidationError: role does not exist"),
      Error("Error", "UnauthorizedOperation: ValidationError in request"),
      Error("ResourceNotFound", "Hosted zone does not exist") }

\* response.Stacks of a DescribeStacks call that succeeds: no stack, or the
\* descriptor of the stack.
DescribedStacks(name) == {<<>>} \cup {<<d>> : d \in Descriptors(name)}

\* Errors the client constructors throw.
ClientConstructionErrors == { Error("Error", "Region is missing") }

\* Contents of the configuration store: nothing; parameters under each of
\* the probed prefixes; and parameters whose name is a bare prefix, has a
\* doubled separator, has no letter or digit, or whose value is empty.
ParameterStores ==
    { <<>>,
      << StoreParameter("/vpc-stack/db/host", "store-db"),
         StoreParameter("/stacks/vpc-stack/api-key", "k1"),
         StoreParameter("/cdk/vpc-stack/db/host", "cdk-db"),
         StoreParameter("/dbstack/db-host", "lower-db"),
         StoreParameter("/DbStack/vpc.id", "vpc-9") >>,
      << StoreParameter("/vpc-stack/", "bare"),
         StoreParameter("/vpc-stack//vpc-id", "vpc-store"),
         StoreParameter("/DbStack/---", "dash"),
         StoreParameter("/stacks/DbStack/db_host", "") >> }

\* GetParametersByPath with Recursive: the parameters under a path.
GetParametersByPath(store, path) ==
    SelectSeq(store, LAMBDA p : StartsWith(p.Name, path))

\* StackInspector.initializeClients: clientConfig.
ClientConfig(e, config) ==
    [region |->
        IF Truthy(config.region) THEN config.region
        ELSE IF Truthy(Get(e, "AWS_REGION")) THEN Get(e, "AWS_REGION")
        ELSE "us-east-1",
     credentials |->
        IF Truthy(config.accessKeyId) /\ Truthy(config.secretAccessKey)
        THEN [accessKeyId |-> config.accessKeyId,
              secretAccessKey |-> config.secretAccessKey]
        ELSE Undefined]

\* StackInspector.initializeClients: process.env after the call.
ClientEnvironment(e, config) ==
    IF Truthy(config.accessKeyId) /\ Truthy(config.secretAccessKey) THEN e
    ELSE IF Truthy(config.profile) THEN InitializeClients(e, config.profile)
    ELSE e

\* Mutant of ExtractOutputs: every output that has a key is copied.
ExtractOutputsByKey(stack) ==
    LET keyed == SelectSeq(stack.Outputs, LAMBDA o : Truthy(o.OutputKey))
    IN  [i \in DOMAIN keyed |->
            [name |-> keyed[i].OutputKey, value |-> keyed[i].OutputValue]]

\* StackInspector.extractOutputs
RECURSIVE OutputsLoop(_, _)
OutputsLoop(outputs, acc) ==
    IF outputs = <<>> THEN acc
    ELSE LET output == Head(outputs)
         IN  OutputsLoop(Tail(outputs),
               IF Truthy(output.OutputKey) /\ Truthy(output.OutputValue)
               THEN Assign(acc, output.OutputKey, output.OutputValue)
               ELSE acc)
ExtractOutputs(stack) == OutputsLoop(stack.Outputs, <<>>)

\* StackInspector.extractParameters
RECURSIVE ParametersLoop(_, _)
ParametersLoop(parameters, acc) ==
    IF parameters = <<>> THEN acc
    ELSE LET param == Head(parameters)
         IN  ParametersLoop(Tail(parameters),
               IF Truthy(param.ParameterKey) /\ Truthy(param.ParameterValue)
               THEN Assign(acc, param.ParameterKey, param.ParameterValue)
               ELSE acc)
ExtractParameters(stack) == ParametersLoop(stack.Parameters, <<>>)

\* StackInspector.extractSSMParameters: pathPatterns
PathPatterns(name) ==
    << "/" \o name \o "/",
       "/" \o ToLowerCase(name) \o "/",
       "/stacks/" \o name \o "/",
       "/cdk/" \o name \o "/" >>

\* The clean name of a parameter probed under a path prefix.
CleanName(name, pathPattern) ==
    StripLeadingSlashes(RemoveFirst(name, pathPattern))

\* StackInspector.extractSSMParameters: the loop over response.Parameters.
RECURSIVE CollectParameters(_, _, _)
CollectParameters(parameters, pathPattern, acc) ==
    IF parameters = <<>> THEN acc
    ELSE LET param == Head(parameters)
             cleanName == CleanName(param.Name, pathPattern)
         IN  CollectParameters(Tail(parameters), pathPattern,
               IF Truthy(param.Name) /\ Truthy(param.Value) /\ Truthy(cleanName)
               THEN Assign(acc, cleanName, param.Value)
               ELSE acc)

\* key.replace(/([a-z])([A-Z])/g, '$1_$2')
RECURSIVE CamelToSnake(_)
CamelToSnake(key) ==
    IF Len(key) < 2 THEN key
    ELSE IF IsLower(Head(key)) /\ IsUpper(CharAt(key, 2))
         THEN Head(key) \o "_" \o CamelToSnake(Tail(key))
         ELSE Head(key) \o CamelToSnake(Tail(key))

\* StackInspector.generateEnvVarsFromOutputs
RECURSIVE GenerateEnvVarsFromOutputs(_)
GenerateEnvVarsFromOutputs(outputs) ==
    IF outputs = <<>> THEN <<>>
    ELSE LET last == outputs[Len(outputs)]
         IN  Assign(GenerateEnvVarsFromOutputs(SubSeq(outputs, 1, Len(outputs) - 1)),
                    ToUpperCase(CamelToSnake(last.name)), last.value)

\* key.replace(/[^a-zA-Z0-9]/g, '_')
RECURSIVE ReplaceNonAlphaNumeric(_)
ReplaceNonAlphaNumeric(key) ==
    IF key = "" THEN ""
    ELSE (IF IsAlphaNumeric(Head(key)) THEN Head(key) ELSE "_")
         \o ReplaceNonAlphaNumeric(Tail(key))

\* key.replace(/_{2,}/g, '_')
RECURSIVE CollapseUnderscores(_)
CollapseUnderscores(key) ==
    IF Len(key) < 2 THEN key
    ELSE IF Head(key) = "_" /\ CharAt(key, 2) = "_"
         THEN CollapseUnderscores(Tail(key))
         ELSE Head(key) \o CollapseUnderscores(Tail(key))

\* key.replace(/^_|_$/g, '')
StripEdgeUnderscores(key) ==
    LET from == IF StartsWith(key, "_") THEN 2 ELSE 1
        rest == SubSeq(key, from, Len(key))
    IN  IF rest # "" /\ EndsWithText(rest, "_")
        THEN SubSeq(rest, 1, Len(rest) - 1)
        ELSE rest

\* The variable name generateEnvVarsFromSSM derives from a parameter name.
StoreVariableName(key) ==
    ToUpperCase(StripEdgeUnderscores(
        CollapseUnderscores(ReplaceNonAlphaNumeric(key))))

\* StackInspector.generateEnvVarsFromSSM
RECURSIVE GenerateEnvVarsFromSSM(_)
GenerateEnvVarsFromSSM(parameters) ==
    IF parameters = <<>> THEN <<>>
    ELSE LET last   == parameters[Len(parameters)]
             envKey == StoreVariableName(last.name)
             init   == GenerateEnvVarsFromSSM(
                           SubSeq(parameters, 1, Len(parameters) - 1))
         IN  IF envKey # "" THEN Assign(init, envKey, last.value) ELSE init

\* Mutant of EnvironmentVariablesOf: output-derived variables are merged
\* over store-derived ones.
EnvironmentVariablesOutputsWin(outputs, parameters) ==
    Spread(GenerateEnvVarsFromSSM(parameters),
           GenerateEnvVarsFromOutputs(outputs))

\* StackInspector.extractRequirements: environmentVariables
EnvironmentVariablesOf(outputs, parameters) ==
    Spread(GenerateEnvVarsFromOutputs(outputs),
           GenerateEnvVarsFromSSM(parameters))

\* tag.Value.split(',').map(dep => dep.trim())
TrimAll(parts) == [i \in DOMAIN parts |-> Trim(parts[i])]

\* StackInspector.extractDependencies: the identifiers of the tags.
RECURSIVE TagDependencies(_)
TagDependencies(tags) ==
    IF tags = <<>> THEN <<>>
    ELSE LET tag == Head(tags)
         IN  (IF tag.Key = "Dependencies" /\ Truthy(tag.Value)
              THEN TrimAll(Split(tag.Value, ","))
              ELSE <<>>) \o TagDependencies(Tail(tags))

\* The match of /arn:aws:cloudformation:[^:]+:[^:]+:stack\/([^\/]+)/ that
\* starts at position i: the captured group, or Undefined.
ArnMatchAt(value, i) ==
    LET prefix  == "arn:aws:cloudformation:"
        afterP  == i + Len(prefix)
        region  == RunLengthNot(SubSeq(value, afterP, Len(value)), {":"})
        afterR  == afterP + region + 1
        account == RunLengthNot(SubSeq(value, afterR, Len(value)), {":"})
        afterA  == afterR + account + 1
        afterS  == afterA + Len("stack/")
        group   == RunLengthNot(SubSeq(value, afterS, Len(value)), {"/"})
    IN  IF /\ OccursAt(value, prefix, i)
           /\ region > 0
           /\ OccursAt(value, ":", afterR - 1)
           /\ account > 0
           /\ OccursAt(value, ":", afterA - 1)
           /\ OccursAt(value, "stack/", afterA)
           /\ group > 0
        THEN SubSeq(value, afterS, afterS + group - 1)
        ELSE Undefined

\* output.OutputValue.match(...): the group of the leftmost match.
ArnMatch(value) ==
    IF \E i \in 1..Len(value) : ArnMatchAt(value, i) # Undefined
    THEN ArnMatchAt(value,
           CHOOSE i \in 1..Len(value) :
              /\ ArnMatchAt(value, i) # Undefined
              /\ \A j \in 1..(i - 1) : ArnMatchAt(value, j) = Undefined)
    ELSE Undefined

\* StackInspector.extractDependencies: the identifiers of the outputs.
RECURSIVE OutputDependencies(_, _)
OutputDependencies(outputs, name) ==
    IF outputs = <<>> THEN <<>>
    ELSE LET output == Head(outputs)
             arnMatch ==
                 IF output.OutputValue # Undefined
                    /\ Includes(output.OutputValue, "arn:aws:cloudformation")
                 THEN ArnMatch(output.OutputValue)
                 ELSE Undefined
         IN  (IF Truthy(arnMatch) /\ arnMatch # name
              THEN <<arnMatch>> ELSE <<>>)
             \o OutputDependencies(Tail(outputs), name)

\* StackInspector.extractDependencies
ExtractDependencies(stack) ==
    Distinct(TagDependencies(stack.Tags)
             \o OutputDependencies(stack.Outputs, stack.StackName))

\* StackInspector.extractRequirements
ExtractRequirements(stack, config, e, parameters) ==
    [stackName |-> stack.StackName,
     region |-> ClientConfig(e, config).region,
     outputs |-> ExtractOutputs(stack),
     parameters |-> ExtractParameters(stack),
     environmentVariables |->
         EnvironmentVariablesOf(ExtractOutputs(stack), parameters),
     dependencies |-> ExtractDependencies(stack),
     status |-> stack.StackStatus,
     readyForDeployment |-> IsStackReady(stack.StackStatus),
     ssmParameters |-> parameters]

\* The recommendation lists of generateErrorRecommendations.
AuthorizationRecommendations ==
    << "Check that your AWS credentials have CloudFormation:DescribeStacks permission",
       "Verify the correct AWS profile is being used",
       "Ensure the stack exists in the correct AWS account" >>
ValidationRecommendations ==
    << "Verify the stack name is correct and exists",
       "Check that you are querying the correct AWS region",
       "Ensure the stack is not in a DELETE_COMPLETE state" >>
NotFoundRecommendations ==
    << "Create the stack first using CDK or CloudFormation",
       "Verify you are connected to the correct AWS account",
       "Check the correct region is specified" >>
TransientRecommendations ==
    << "Check your internet connection",
       "Verify AWS credentials are configured",
       "Try again with a different AWS profile or region" >>

\* The recommendations inspectStack returns for a stack it did not find.
StackNotFoundRecommendations ==
    << "Verify the stack name is correct",
       "Check that the stack exists in the specified region",
       "Ensure your AWS credentials have permission to describe the stack" >>

\* Mutant of GenerateErrorRecommendations: 'does not exist' is looked for
\* before 'ValidationError'.
GenerateErrorRecommendationsNotFoundFirst(message) ==
    IF Includes(message, "AccessDenied")
       \/ Includes(message, "UnauthorizedOperation")
    THEN AuthorizationRecommendations
    ELSE IF Includes(message, "does not exist")
    THEN NotFoundRecommendations
    ELSE IF Includes(message, "ValidationError")
    THEN ValidationRecommendations
    ELSE TransientRecommendations

\* StackInspector.generateErrorRecommendations, for an Error object.
GenerateErrorRecommendations(message) ==
    IF Includes(message, "AccessDenied")
       \/ Includes(message, "UnauthorizedOperation")
    THEN AuthorizationRecommendations
    ELSE IF Includes(message, "ValidationError")
    THEN ValidationRecommendations
    ELSE IF Includes(message, "does not exist")
    THEN NotFoundRecommendations
    ELSE TransientRecommendations

\* A StackInspectionResult.
Success(requirements) ==
    [success |-> TRUE, requirements |-> requirements, error |-> NoError,
     recommendations |-> <<>>]
Failure(error, recommendations) ==
    [success |-> FALSE, requirements |-> Undefined, error |-> error,
     recommendations |-> recommendations]

\* No deployServiceRemote request is under way.
PluginIdle ==
    /\ pc = "idle"
    /\ deps = <<>>
    /\ environment = Undefined
    /\ defaultProfile = Undefined
    /\ stackInspector = TRUE
    /\ idx = 0
    /\ inspectionResult = NoResult
    /\ validation = NoValidation
    /\ caught = NoError
    /\ thrown = NoError
    /\ trace = <<>>

\* A call inspectStack(stackName, profileConfig) is made.
InitInspector ==
    /\ ScannerIdle
    /\ DetectorIdle
    /\ PluginIdle
    /\ LocalIdle
    /\ ReloadIdle
    /\ env \in InspectorEnvs
    /\ events = <<>>
    /\ ipc = "called"
    /\ stackName \in InspectedStackNames
    /\ profileConfig \in ProfileConfigs
    /\ parameterStore \in ParameterStores
    /\ cloudFormationClient = Undefined
    /\ ssmClient = Undefined
    /\ stackData = Undefined
    /\ pathIndex = 0
    /\ ssmParameters = <<>>
    /\ probed = <<>>
    /\ errorMessage = Undefined
    /\ returned = Undefined

\* emitBeforeInspectionEvent, ahead of the try block.
EmitBeforeInspection ==
    /\ ipc = "called"
    /\ events' = Append(events,
                   Event("serverless:before:stack-inspection", TRUE, NoError))
    /\ ipc' = "initializing"
    /\ UNCHANGED <<pluginVars, scannerVars, detectorVars, localVars, reloadVars, env, stackName, profileConfig, parameterStore,
                   cloudFormationClient, ssmClient, stackData, pathIndex,
                   ssmParameters, probed, errorMessage, returned>>

\* initializeClients: the profile is written to process.env, then the
\* clients are constructed, or a constructor throws.
InitializeInspectorClients ==
    /\ ipc = "initializing"
    /\ env' = ClientEnvironment(env, profileConfig)
    /\ \/ /\ cloudFormationClient' = ClientConfig(env, profileConfig)
          /\ ssmClient' = ClientConfig(env, profileConfig)
          /\ ipc' = "describing"
          /\ UNCHANGED errorMessage
       \/ /\ \E error \in ClientConstructionErrors :
                errorMessage' = error.message
          /\ ipc' = "catch"
          /\ UNCHANGED <<cloudFormationClient, ssmClient>>
    /\ UNCHANGED <<pluginVars, scannerVars, detectorVars, localVars, reloadVars, events, stackName, profileConfig,
                   parameterStore, stackData, pathIndex, ssmParameters,
                   probed, returned>>

\* The return of inspectStack for a stack getStackDetails did not find.
StackNotFound ==
    /\ returned' = Failure(<<"Stack '", stackName,
                             "' not found or not accessible">>,
                           StackNotFoundRecommendations)
    /\ ipc' = "returned"
    /\ UNCHANGED <<stackData, pathIndex, errorMessage>>

\* getStackDetails and the not-found return: DescribeStacks rejects with an
\* error, or answers with no stack or with the descriptor; the error of a
\* stack that does not exist counts as no stack, any other error is
\* rethrown to the catch block of inspectStack.
GetStackDetails ==
    /\ ipc = "describing"
    /\ \/ \E error \in DescribeErrors(stackName) :
             IF /\ error.name = "ValidationError"
                /\ Includes(error.message, "does not exist")
             THEN StackNotFound
             ELSE /\ errorMessage' = error.message
                  /\ ipc' = "catch"
                  /\ UNCHANGED <<stackData, pathIndex, returned>>
       \/ \E stacks \in DescribedStacks(stackName) :
             IF stacks = <<>>
             THEN StackNotFound
             ELSE /\ stackData' = stacks[1]
                  /\ pathIndex' = 1
                  /\ ipc' = "probing"
                  /\ UNCHANGED <<errorMessage, returned>>
    /\ UNCHANGED <<pluginVars, scannerVars, detectorVars, localVars, reloadVars, env, events, stackName, profileConfig,
                   parameterStore, cloudFormationClient, ssmClient,
                   ssmParameters, probed>>

\* A record of one probe.
Probe(path, ok) == [path |-> path, ok |-> ok]

\* The position after one iteration of the loop over pathPatterns.
NextPath ==
    IF pathIndex < Len(PathPatterns(stackData.StackName))
    THEN /\ pathIndex' = pathIndex + 1
         /\ ipc' = "probing"
    ELSE /\ pathIndex' = pathIndex
         /\ ipc' = "deriving"

\* Mutant of ProbePath: a failed probe ends the loop.
ProbePathUntilFailure ==
    /\ ipc = "probing"
    /\ LET pathPattern == PathPatterns(stackData.StackName)[pathIndex]
       IN  \/ /\ ssmParameters' =
                    CollectParameters(
                        GetParametersByPath(parameterStore, pathPattern),
                        pathPattern, ssmParameters)
              /\ probed' = Append(probed, Probe(pathPattern, TRUE))
              /\ NextPath
           \/ /\ probed' = Append(probed, Probe(pathPattern, FALSE))
              /\ pathIndex' = pathIndex
              /\ ipc' = "deriving"
              /\ UNCHANGED ssmParameters
    /\ UNCHANGED <<pluginVars, scannerVars, detectorVars, localVars, reloadVars, env, events, stackName, profileConfig,
                   parameterStore, cloudFormationClient, ssmClient,
                   stackData, errorMessage, returned>>

\* extractSSMParameters, one iteration: the prefix is probed; its
\* parameters are collected, or the probe fails and the loop continues.
ProbePath ==
    /\ ipc = "probing"
    /\ LET pathPattern == PathPatterns(stackData.StackName)[pathIndex]
       IN  \/ /\ ssmParameters' =
                    CollectParameters(
                        GetParametersByPath(parameterStore, pathPattern),
                        pathPattern, ssmParameters)
              /\ probed' = Append(probed, Probe(pathPattern, TRUE))
           \/ /\ probed' = Append(probed, Probe(pathPattern, FALSE))
              /\ UNCHANGED ssmParameters
    /\ NextPath
    /\ UNCHANGED <<pluginVars, scannerVars, detectorVars, localVars, reloadVars, env, events, stackName, profileConfig,
                   parameterStore, cloudFormationClient, ssmClient,
                   stackData, errorMessage, returned>>

\* extractRequirements after the probes, emitAfterInspectionEvent and the
\* successful return.
ReturnRequirements ==
    /\ ipc = "deriving"
    /\ events' = Append(events,
                   Event("serverless:after:stack-inspection", TRUE, NoError))
    /\ returned' = Success(ExtractRequirements(stackData, profileConfig, env,
                                               ssmParameters))
    /\ ipc' = "returned"
    /\ UNCHANGED <<pluginVars, scannerVars, detectorVars, localVars, reloadVars, env, stackName, profileConfig, parameterStore,
                   cloudFormationClient, ssmClient, stackData, pathIndex,
                   ssmParameters, probed, errorMessage>>

\* The catch block of inspectStack.
CatchInspection ==
    /\ ipc = "catch"
    /\ events' = Append(events,
                   Event("serverless:stack:inspection:failed", FALSE,
                         <<errorMessage>>))
    /\ returned' = Failure(<<errorMessage>>,
                           GenerateErrorRecommendations(errorMessage))
    /\ ipc' = "returned"
    /\ UNCHANGED <<pluginVars, scannerVars, detectorVars, localVars, reloadVars, env, stackName, profileConfig, parameterStore,
                   cloudFormationClient, ssmClient, stackData, pathIndex,
                   ssmParameters, probed, errorMessage>>

NextInspector ==
    \/ EmitBeforeInspection
    \/ InitializeInspectorClients
    \/ GetStackDetails
    \/ ProbePath
    \/ ReturnRequirements
    \/ CatchInspection

SpecInspector == InitInspector /\ [][NextInspector]_vars

-----------------------------------------------------------------------------
(* ServerlessDependencyScanner.scanDependencies *)

\* process.cwd()
Cwd == "/work/app"

\* The number of times the same scanDependencies call is made.
MaxScans == 2

\* The size ceiling of loadConfig, in bytes.
MaxFileSize == 10 * 1024 * 1024

\* Array.prototype.join on strings.
RECURSIVE JoinText(_, _)
JoinText(parts, sep) ==
    IF parts = <<>> THEN ""
    ELSE IF Len(parts) = 1 THEN parts[1]
    ELSE parts[1] \o sep \o JoinText(Tail(parts), sep)

\* path.resolve: the segments left after . and .. are applied.
RECURSIVE ResolveSegments(_, _)
ResolveSegments(segments, acc) ==
    IF segments = <<>> THEN acc
    ELSE LET segment == Head(segments)
         IN  ResolveSegments(Tail(segments),
               IF segment = "" \/ segment = "." THEN acc
               ELSE IF segment = ".."
                    THEN SubSeq(acc, 1, Len(acc) - 1)
                    ELSE Append(acc, segment))

\* path.resolve(p): p made absolute against the working directory and
\* normalised.
Resolve(p) ==
    LET absolute == IF StartsWith(p, "/") THEN p ELSE Cwd \o "/" \o p
    IN  "/" \o JoinText(ResolveSegments(Split(absolute, "/"), <<>>), "/")

\* isPathSafe: const baseDir
BaseDir(root) == IF Truthy(root) THEN Resolve(root) ELSE Cwd

\* ServerlessDependencyScanner.isPathSafe
IsPathSafe(filePath, root) ==
    LET resolvedPath == Resolve(filePath)
    IN  StartsWith(resolvedPath, BaseDir(root))

\* s.lastIndexOf(sub) + 1: the last position of sub in s, 0 when none.
LastIndexOf(s, sub) ==
    IF \E i \in 1..Len(s) : OccursAt(s, sub, i)
    THEN CHOOSE i \in 1..Len(s) :
            /\ OccursAt(s, sub, i)
            /\ \A j \in (i + 1)..Len(s) : ~OccursAt(s, sub, j)
    ELSE 0

\* The positions of s at which sub occurs.
Occurrences(s, sub) == {i \in 1..Len(s) : OccursAt(s, sub, i)}

\* No character of s from position a to position b is in the set cs.
NoneIn(s, a, b, cs) == \A i \in a..b : CharAt(s, i) \notin cs

\* \$\{[^}]+\} at position i: the position of its closing brace, or 0.
PlaceholderEnd(s, i) ==
    IF OccursAt(s, "${", i)
    THEN LET n == RunLengthNot(SubSeq(s, i + 2, Len(s)), {"}"})
         IN  IF n >= 1 /\ OccursAt(s, "}", i + 2 + n) THEN i + 2 + n ELSE 0
    ELSE 0

\* (?:[^$}]|\$\{[^}]+\})+ from position j, having matched count items: the
\* position of the last character matched when a } follows, or 0.
RECURSIVE ReferenceBodyEnd(_, _, _)
ReferenceBodyEnd(s, j, count) ==
    IF j > Len(s) THEN 0
    ELSE IF CharAt(s, j) = "}" THEN (IF count > 0 THEN j - 1 ELSE 0)
    ELSE IF CharAt(s, j) = "$"
         THEN IF PlaceholderEnd(s, j) = 0 THEN 0
              ELSE ReferenceBodyEnd(s, PlaceholderEnd(s, j) + 1, count + 1)
    ELSE ReferenceBodyEnd(s, j + 1, count + 1)

\* The positions from i on at which /\$\{<kind>:((?:[^$}]|\$\{[^}]+\})+)\}/
\* matches in s, opening being the literal head of the pattern.
ReferenceStarts(s, opening, i) ==
    {k \in i..Len(s) :
        /\ OccursAt(s, opening, k)
        /\ ReferenceBodyEnd(s, k + Len(opening), 0) # 0}

\* The loop `while ((match = pattern.exec(yamlString)) !== null)` over the
\* global pattern: the captured payloads of the successive matches, each
\* search starting where the last match ended.
RECURSIVE References(_, _, _)
References(s, opening, i) ==
    IF ReferenceStarts(s, opening, i) = {} THEN <<>>
    ELSE LET k    == CHOOSE k \in ReferenceStarts(s, opening, i) :
                         \A o \in ReferenceStarts(s, opening, i) : k <= o
             from == k + Len(opening)
             to   == ReferenceBodyEnd(s, from, 0)
         IN  <<SubSeq(s, from, to)>> \o References(s, opening, to + 2)

\* s.replace(/\$\{[^}]+\}/g, by)
RECURSIVE ReplacePlaceholders(_, _)
ReplacePlaceholders(s, by) ==
    IF s = "" THEN ""
    ELSE IF PlaceholderEnd(s, 1) # 0
         THEN by \o ReplacePlaceholders(
                       SubSeq(s, PlaceholderEnd(s, 1) + 1, Len(s)), by)
         ELSE Head(s) \o ReplacePlaceholders(Tail(s), by)

\* s.replace(/\*/g, '')
RECURSIVE RemoveWildcards(_)
RemoveWildcards(s) ==
    IF s = "" THEN ""
    ELSE (IF Head(s) = "*" THEN "" ELSE Head(s)) \o RemoveWildcards(Tail(s))

\* s.replace(/^-+|-+$/g, '')
RECURSIVE StripTrailingDashes(_)
StripTrailingDashes(s) ==
    IF s = "" \/ CharAt(s, Len(s)) # "-" THEN s
    ELSE StripTrailingDashes(SubSeq(s, 1, Len(s) - 1))
StripEdgeDashes(s) ==
    StripTrailingDashes(SubSeq(s, RunLength(s, {"-"}) + 1, Len(s)))

\* s.replace(/-+/g, '-')
RECURSIVE CollapseDashes(_)
CollapseDashes(s) ==
    IF Len(s) < 2 THEN s
    ELSE IF Head(s) = "-" /\ CharAt(s, 2) = "-"
         THEN CollapseDashes(Tail(s))
         ELSE Head(s) \o CollapseDashes(Tail(s))

\* parts.indexOf(x) + 1
FirstIndex(parts, x) ==
    IF \E i \in DOMAIN parts : parts[i] = x
    THEN CHOOSE i \in DOMAIN parts :
            parts[i] = x /\ \A j \in 1..(i - 1) : parts[j] # x
    ELSE 0

\* The matches of /\$\{[^}]+\}-(.+-stack)/ in s as pairs <<q, t>>: the
\* placeholder starts at q and the closing -stack of the group at t.
PrefixedMatches(s) ==
    {<<q, t>> \in Occurrences(s, "${") \X Occurrences(s, "-stack") :
        /\ PlaceholderEnd(s, q) # 0
        /\ OccursAt(s, "-", PlaceholderEnd(s, q) + 1)
        /\ t >= PlaceholderEnd(s, q) + 3
        /\ NoneIn(s, PlaceholderEnd(s, q) + 2, t - 1, {"\n"})}

\* The matches of /(.+)-\$\{[^}]+\}-(stack)/ in s as pairs <<i, k>>: the
\* first group runs from i to k - 1 and -${ is at k.
InfixedMatches(s) ==
    {<<i, k>> \in (1..Len(s)) \X Occurrences(s, "-${") :
        /\ i < k
        /\ NoneIn(s, i, k - 1, {"\n"})
        /\ PlaceholderEnd(s, k + 1) # 0
        /\ OccursAt(s, "-stack", PlaceholderEnd(s, k + 1) + 1)}

\* The matches of /(.+-stack)-\$\{[^}]+\}/ in s as pairs <<i, t>>: the group
\* runs from i to the end of the -stack at t.
SuffixedMatches(s) ==
    {<<i, t>> \in (1..Len(s)) \X Occurrences(s, "-stack") :
        /\ i < t
        /\ NoneIn(s, i, t - 1, {"\n"})
        /\ OccursAt(s, "-${", t + 6)
        /\ PlaceholderEnd(s, t + 7) # 0}

\* The match a backtracking matcher reports among pairs <<start, end>>: the
\* leftmost start and, for it, the end that the greedy quantifier reaches.
Leftmost(matches) ==
    CHOOSE m \in matches :
        \A o \in matches : m[1] < o[1] \/ (m[1] = o[1] /\ m[2] >= o[2])

\* ServerlessDependencyScanner.extractBaseStackName: the fallback.
BaseStackNameFallback(payload) ==
    LET cleanName == CollapseDashes(StripEdgeDashes(
                         ReplacePlaceholders(payload, "-")))
        parts      == Split(cleanName, "-")
        stackIndex == FirstIndex(parts, "stack")
    IN  IF EndsWithText(cleanName, "-stack") THEN cleanName
        ELSE IF /\ Includes(cleanName, "stack")
                /\ ~EndsWithText(cleanName, "stack")
                /\ stackIndex > 0
             THEN JoinText(SubSeq(parts, 1, stackIndex), "-")
        ELSE IF cleanName # "" THEN cleanName \o "-stack"
        ELSE Undefined

\* ServerlessDependencyScanner.extractBaseStackName; Undefined is null.
ExtractBaseStackName(payload) ==
    IF PrefixedMatches(payload) # {}
    THEN LET m == Leftmost(PrefixedMatches(payload))
         IN  SubSeq(payload, PlaceholderEnd(payload, m[1]) + 2, m[2] + 5)
    ELSE IF InfixedMatches(payload) # {}
    THEN LET m == Leftmost(InfixedMatches(payload))
         IN  SubSeq(payload, m[1], m[2] - 1) \o "-stack"
    ELSE IF SuffixedMatches(payload) # {}
    THEN LET m == Leftmost(SuffixedMatches(payload))
         IN  SubSeq(payload, m[1], m[2] + 5)
    ELSE BaseStackNameFallback(payload)

\* The matches of /\/([^/]*\$\{[^}]+\}[^/]*-stack)/ in s as triples
\* <<p, q, t>>: the separator is at p, the placeholder starts at q and the
\* closing -stack at t.
InterpolatedMatches(s) ==
    {m \in Occurrences(s, "/") \X Occurrences(s, "${")
              \X Occurrences(s, "-stack") :
        /\ m[1] < m[2]
        /\ NoneIn(s, m[1] + 1, m[2] - 1, {"/"})
        /\ PlaceholderEnd(s, m[2]) # 0
        /\ m[3] > PlaceholderEnd(s, m[2])
        /\ NoneIn(s, PlaceholderEnd(s, m[2]) + 1, m[3] - 1, {"/"})}

\* ssmPath.match(/\/([^/]*\$\{[^}]+\}[^/]*-stack)/)[1]: the group of the
\* leftmost match, the longest one the greedy quantifiers allow; Undefined
\* when the pattern does not match.
InterpolatedStackSegment(s) ==
    IF InterpolatedMatches(s) = {} THEN Undefined
    ELSE LET m == CHOOSE m \in InterpolatedMatches(s) :
                      \A o \in InterpolatedMatches(s) :
                          \/ m[1] < o[1]
                          \/ m[1] = o[1] /\ m[2] > o[2]
                          \/ m[1] = o[1] /\ m[2] = o[2] /\ m[3] >= o[3]
         IN  SubSeq(s, m[1] + 1, m[3] + 5)

\* The well-known nouns of isKnownStackName.
KnownStackPatterns ==
    {"vpc", "rds", "cognito", "api-gateway", "dynamodb", "s3", "lambda",
     "ecs", "eks"}

\* ServerlessDependencyScanner.isKnownStackName
IsKnownStackName(name) ==
    \E p \in KnownStackPatterns : Includes(ToLowerCase(name), p)

\* extractStackFromSSMPath: the loop over pathParts; Undefined when no part
\* is returned.
RECURSIVE StackLikePart(_)
StackLikePart(pathParts) ==
    IF pathParts = <<>> THEN Undefined
    ELSE LET part      == Head(pathParts)
             cleanPart == StripEdgeDashes(RemoveWildcards(part))
         IN  IF Includes(part, "*") /\ Includes(part, "stack")
                /\ cleanPart # ""
             THEN cleanPart
             ELSE IF Includes(part, "stack") \/ IsKnownStackName(part)
             THEN part
             ELSE StackLikePart(Tail(pathParts))

\* extractStackFromSSMPath: standard path processing.
StandardStackName(ssmPath) ==
    LET cleanPath == ReplacePlaceholders(ssmPath, "*")
        pathParts == SelectSeq(Split(cleanPath, "/"),
                               LAMBDA p : p # "" /\ p # "*")
    IN  IF StackLikePart(pathParts) # Undefined THEN StackLikePart(pathParts)
        ELSE IF Len(pathParts) > 0 THEN pathParts[1]
        ELSE Undefined

\* ServerlessDependencyScanner.extractStackFromSSMPath; Undefined is null.
ExtractStackFromSSMPath(ssmPath) ==
    IF InterpolatedStackSegment(ssmPath) # Undefined
    THEN ExtractBaseStackName(InterpolatedStackSegment(ssmPath))
    ELSE StandardStackName(ssmPath)

\* A serverless:dependency:detected notification.
DependencyEvent(kind, source, target, outputName) ==
    [type |-> "serverless:dependency:detected", kind |-> kind,
     source |-> source, target |-> target, outputName |-> outputName]

\* scanSSMReferences: the identifier a parameter path gives, or Undefined.
SSMDependency(ssmPath) ==
    IF ssmPath = "" THEN Undefined ELSE ExtractStackFromSSMPath(ssmPath)

\* Mutant of StackPart: the part before the first dot.
StackPartBeforeFirstDot(cfRef) == SubSeq(cfRef, 1, IndexOf(cfRef, ".") - 1)

\* scanCFImports: the stack part and the output name of a reference.
StackPart(cfRef) == SubSeq(cfRef, 1, LastIndexOf(cfRef, ".") - 1)
OutputName(cfRef) == SubSeq(cfRef, LastIndexOf(cfRef, ".") + 1, Len(cfRef))

\* scanCFImports: the identifier a stack-output reference gives, or
\* Undefined.
CFDependency(cfRef) ==
    IF cfRef = "" \/ LastIndexOf(cfRef, ".") <= 1 THEN Undefined
    ELSE IF StackPart(cfRef) = "" \/ OutputName(cfRef) = "" THEN Undefined
    ELSE IF ~Includes(StackPart(cfRef), "${") THEN StackPart(cfRef)
    ELSE ExtractBaseStackName(StackPart(cfRef))

\* yaml.dump(content): the document's lines.
Dump(document) == JoinText(document, "\n") \o "\n"

\* Mutant of SSMReferences: references of every kind are taken.
SSMReferencesOfAnyKind(document) == References(Dump(document), "${", 1)

\* The parameter paths and the stack-output references of a document.
SSMReferences(document) == References(Dump(document), "${ssm:", 1)
CFReferences(document) == References(Dump(document), "${cf:", 1)

\* scanSSMReferences: the identifiers found, one per reference.
SSMDependencies(document) ==
    SelectSeq([i \in DOMAIN SSMReferences(document) |->
                  SSMDependency(SSMReferences(document)[i])],
              LAMBDA d : Truthy(d))

\* Mutant of SSMEvents: one notification for each distinct identifier.
SSMEventsPerIdentifier(document, filePath) ==
    [i \in DOMAIN Distinct(SSMDependencies(document)) |->
        DependencyEvent("ssm", filePath,
                        Distinct(SSMDependencies(document))[i], Undefined)]

\* scanSSMReferences: the notifications emitted.
SSMEvents(document, filePath) ==
    [i \in DOMAIN SSMDependencies(document) |->
        DependencyEvent("ssm", filePath, SSMDependencies(document)[i],
                        Undefined)]

\* scanCFImports: the references that give an identifier.
CFImports(document) ==
    SelectSeq(CFReferences(document), LAMBDA r : Truthy(CFDependency(r)))

\* scanCFImports: the identifiers found, one per reference.
CFDependencies(document) ==
    [i \in DOMAIN CFImports(document) |-> CFDependency(CFImports(document)[i])]

\* scanCFImports: the notifications emitted.
CFEvents(document, filePath) ==
    [i \in DOMAIN CFImports(document) |->
        DependencyEvent("cloudformation", filePath,
                        CFDependency(CFImports(document)[i]),
                        OutputName(CFImports(document)[i]))]

\* A document with one parameter-path reference.
DocumentOf(ssmPath) == << "value: ${ssm:" \o ssmPath \o "}" >>

\* Parameter paths without placeholders: a segment with the marker after a
\* segment of the allow-list, a segment of the allow-list only, neither.
PlainPaths ==
    {"/vpc/core-stack/id", "/shared/cognito/pool-id", "/global-param"}

\* Documents: their lines as yaml.dump writes them.
Documents ==
    { <<>>,
      << "vpcId: ${ssm:/vpc-stack/vpc-id}",
         "apiUrl: ${cf:api-gateway-stack.RestApiUrl}" >>,
      << "vpcId1: ${ssm:/vpc-stack/vpc-id}",
         "vpcId2: ${ssm:/vpc-stack/subnet-1}",
         "vpcId3: ${ssm:/vpc-stack/subnet-2}",
         "id: ${cf:vpc-stack.VpcId}" >>,
      << "stage: ${opt:stage}",
         "region: ${env:AWS_REGION}",
         "accountId: ${aws:accountId}",
         "timestamp: ${sls:instanceId}",
         "name: ${self:service}" >>,
      << "broken1: ${ssm:}",
         "broken2: ${ssm:/}",
         "broken3: ${cf:}",
         "broken4: ${cf:stack}" >>,
      << "ssmPath3: ${ssm:/${self:custom.stage}-api-gateway-stack/rest-api-id}",
         "apiUrl: ${cf:${self:provider.stage}-api-stack.RestApiUrl}",
         "tableArn: ${cf:dynamodb-${self:provider.stage}-stack.TableArn}" >>,
      << "queueUrl: ${ssm:/${self:custom.org}-${self:custom.stage}-stack/url}" >>,
      << "vpcId: ${cf:vpc-stack.${self:custom.output}}" >>,
      << "appUrl: ${cf:my.app-stack.Url}",
         "noStack: ${cf:.Url}",
         "noOutput: ${cf:app-stack.}" >>,
      << "value: ${ssm:/${self:custom.a}${self:custom.b}/x}" >>,
      << "vpcId: ${cf:${opt:stackName}.VpcId}" >> }
    \cup {DocumentOf(p) : p \in PlainPaths}

\* What a nested placeholder may hold.
PlaceholderContents ==
    {"self:custom.stage", "opt:stage", "file(./cfg/env.yml):stage"}

\* Parameter paths in which one placeholder immediately precedes the suffix
\* -api-gateway-stack of a segment: alone in its segment or after a literal,
\* in the only segment, the first or a later one, followed by other
\* segments or not.
GatewayPaths ==
    { before \o literal \o "${" \o c \o "}-api-gateway-stack" \o after :
        before \in {"", "/", "/shared/"}, literal \in {"", "eu-"},
        c \in PlaceholderContents, after \in {"", "/rest-api-id"} }

\* Parameter paths of the form /vpc-stack/<anything>.
VpcPaths ==
    { "/vpc-stack/" \o after :
        after \in {"vpc-id", "subnets/private/0", "${self:custom.stage}/id",
                   "api-stack/url", "${self:custom.stage}-db-stack/endpoint"} }

\* The documents that hold one reference of one of these two forms.
ReferenceDocuments == {DocumentOf(p) : p \in GatewayPaths \cup VpcPaths}

\* A file: whether it exists, its size in bytes, whether it can be read,
\* whether its text is a YAML document, and the document.
File(exists, size, readable, parseable, document) ==
    [exists |-> exists, size |-> size, readable |-> readable,
     parseable |-> parseable, document |-> document]

\* The file at the configuration path: missing, over the size ceiling,
\* exactly at the ceiling, unreadable, not a YAML document, or a document.
Files ==
    { NoFile,
      File(TRUE, MaxFileSize + 1, TRUE, TRUE,
           <<"vpcId: ${ssm:/vpc-stack/vpc-id}">>),
      File(TRUE, MaxFileSize, TRUE, TRUE,
           <<"vpcId: ${ssm:/vpc-stack/vpc-id}">>),
      File(TRUE, 120, FALSE, TRUE, <<"vpcId: ${ssm:/vpc-stack/vpc-id}">>),
      File(TRUE, 120, TRUE, FALSE, <<"invalid: yaml: content:">>) }
    \cup { File(TRUE, 120, TRUE, TRUE, d) : d \in Documents }

\* The files that hold a document of ReferenceDocuments.
ReferenceFiles == { File(TRUE, 120, TRUE, TRUE, d) : d \in ReferenceDocuments }

\* Configuration paths: inside the working directory, relative and
\* absolute; in a sibling directory whose name begins with the name of the
\* root; and elsewhere.
ConfigPaths ==
    { "serverless.yml",
      "services/api/serverless.yml",
      "/work/app/services/../serverless.yml",
      "../app-other/serverless.yml",
      "/work/app/services-old/serverless.yml",
      "../../etc/serverless.yml",
      "/etc/passwd" }

\* projectRoot: omitted, the working directory, or a directory below it.
ProjectRoots == {Undefined, "/work/app", "services/"}

\* A call scanDependencies(configPath, projectRoot) is made. The documents of
\* ReferenceDocuments are scanned at one path, the others at every path.
InitScanner ==
    /\ PluginIdle
    /\ DetectorIdle
    /\ InspectorIdle
    /\ LocalIdle
    /\ ReloadIdle
    /\ env = <<>>
    /\ events = <<>>
    /\ spc = "called"
    /\ configPath \in ConfigPaths
    /\ projectRoot \in ProjectRoots
    /\ file \in Files \cup ReferenceFiles
    /\ file \in ReferenceFiles =>
           configPath = "serverless.yml" /\ projectRoot = Undefined
    /\ accesses = <<>>
    /\ content = <<>>
    /\ ssmDeps = <<>>
    /\ scanned = <<>>
    /\ previous = <<>>
    /\ scans = 1

\* The path check at the head of the try block.
CheckPath ==
    /\ spc = "called"
    /\ spc' = IF IsPathSafe(configPath, projectRoot) THEN "stat" ELSE "catch"
    /\ UNCHANGED <<pluginVars, env, events, inspectorVars, detectorVars, localVars, reloadVars, scanGiven, accesses, content, ssmDeps, scanned>>

\* Mutant of StatFile: the size is not checked.
StatFileWithoutCeiling ==
    /\ spc = "stat"
    /\ accesses' = Append(accesses, "stat")
    /\ spc' = IF file.exists THEN "reading" ELSE "catch"
    /\ UNCHANGED <<pluginVars, env, events, inspectorVars, detectorVars, localVars, reloadVars, scanGiven,
                   content, ssmDeps, scanned>>

\* loadConfig: fs.promises.stat and the size check.
StatFile ==
    /\ spc = "stat"
    /\ accesses' = Append(accesses, "stat")
    /\ spc' = IF file.exists /\ file.size <= MaxFileSize
              THEN "reading" ELSE "catch"
    /\ UNCHANGED <<pluginVars, env, events, inspectorVars, detectorVars, localVars, reloadVars, scanGiven, content, ssmDeps, scanned>>

\* loadConfig: fs.promises.readFile and yaml.load.
ReadFile ==
    /\ spc = "reading"
    /\ accesses' = Append(accesses, "readFile")
    /\ IF file.readable /\ file.parseable
       THEN /\ content' = file.document
            /\ spc' = "scanning"
       ELSE /\ content' = content
            /\ spc' = "catch"
    /\ UNCHANGED <<pluginVars, env, events, inspectorVars, detectorVars, localVars, reloadVars, scanGiven, ssmDeps, scanned>>

\* scanSSMReferences
ScanSSMReferences ==
    /\ spc = "scanning"
    /\ ssmDeps' = Distinct(SSMDependencies(content))
    /\ events' = events \o SSMEvents(content, configPath)
    /\ spc' = "importing"
    /\ UNCHANGED <<pluginVars, env, inspectorVars, detectorVars, localVars, reloadVars, scanGiven, accesses, content, scanned>>

\* Mutant of ScanCFImports: the two lists are concatenated.
ScanCFImportsWithoutSet ==
    /\ spc = "importing"
    /\ events' = events \o CFEvents(content, configPath)
    /\ scanned' = ssmDeps \o Distinct(CFDependencies(content))
    /\ spc' = "returned"
    /\ UNCHANGED <<pluginVars, env, inspectorVars, detectorVars, localVars, reloadVars, scanGiven, accesses,
                   content, ssmDeps>>

\* scanCFImports and the return of the collected set.
ScanCFImports ==
    /\ spc = "importing"
    /\ events' = events \o CFEvents(content, configPath)
    /\ scanned' = Distinct(ssmDeps \o Distinct(CFDependencies(content)))
    /\ spc' = "returned"
    /\ UNCHANGED <<pluginVars, env, inspectorVars, detectorVars, localVars, reloadVars, scanGiven, accesses, content, ssmDeps>>

\* Mutant of CatchScan: the error is rethrown.
CatchScanRethrow ==
    /\ spc = "catch"
    /\ spc' = "raised"
    /\ UNCHANGED <<pluginVars, env, events, inspectorVars, detectorVars, localVars, reloadVars, scanGiven, accesses, content, ssmDeps, scanned>>

\* The catch block of scanDependencies.
CatchScan ==
    /\ spc = "catch"
    /\ scanned' = <<>>
    /\ spc' = "returned"
    /\ UNCHANGED <<pluginVars, env, events, inspectorVars, detectorVars, localVars, reloadVars, scanGiven, accesses, content, ssmDeps>>

\* The same call is made once more: the arguments and the file are the
\* same, the locals of the call are fresh, the event bus keeps its log.
ScanAgain ==
    /\ spc = "returned"
    /\ scans < MaxScans
    /\ scans' = scans + 1
    /\ previous' = scanned
    /\ spc' = "called"
    /\ accesses' = <<>>
    /\ content' = <<>>
    /\ ssmDeps' = <<>>
    /\ scanned' = <<>>
    /\ UNCHANGED <<pluginVars, env, events, inspectorVars, detectorVars, localVars, reloadVars, configPath,
                   projectRoot, file>>

NextScanner ==
    \/ CheckPath
    \/ StatFile
    \/ ReadFile
    \/ ScanSSMReferences
    \/ ScanCFImports
    \/ CatchScan
    \/ ScanAgain

SpecScanner == InitScanner /\ [][NextScanner]_vars

-----------------------------------------------------------------------------
(* ServerlessPatternDetector.scan *)

\* The number of config files the glob finds, at most.
MaxFiles == 3

\* path.dirname and path.basename of an absolute path.
Dirname(p) ==
    LET segments == ResolveSegments(Split(p, "/"), <<>>)
    IN  "/" \o JoinText(SubSeq(segments, 1, Len(segments) - 1), "/")
Basename(p) ==
    LET segments == ResolveSegments(Split(p, "/"), <<>>)
    IN  IF segments = <<>> THEN "" ELSE segments[Len(segments)]

\* What yaml.load returns: nothing (an empty file) or a configuration whose
\* service key may be absent.
Config(empty, name) == [empty |-> empty, service |-> name]

\* A config file the glob found: its absolute path, whether it exists, its
\* size, whether it can be read, whether its text is YAML, and what
\* yaml.load returns for it.
ConfigFile(path, exists, size, readable, parseable, config) ==
    [path |-> path, exists |-> exists, size |-> size, readable |-> readable,
     parseable |-> parseable, config |-> config]

\* Config files: with a service name, in the root and below it; without
\* one; with an empty one; not YAML; over the size ceiling; exactly at the
\* ceiling; outside the project root; empty; gone since the glob ran;
\* unreadable.
ConfigFiles ==
    { ConfigFile("/work/app/serverless.yml", TRUE, 120, TRUE, TRUE,
                 Config(FALSE, "test-service")),
      ConfigFile("/work/app/services/api/serverless.yml", TRUE, 120, TRUE,
                 TRUE, Config(FALSE, "api")),
      ConfigFile("/work/app/services/worker/serverless.yaml", TRUE, 120, TRUE,
                 TRUE, Config(FALSE, Undefined)),
      ConfigFile("/work/app/services/mail/serverless.yml", TRUE, MaxFileSize,
                 TRUE, TRUE, Config(FALSE, "")),
      ConfigFile("/work/app/services/broken/serverless.yml", TRUE, 120, TRUE,
                 FALSE, Config(TRUE, Undefined)),
      ConfigFile("/work/app/services/big/serverless.yml", TRUE,
                 MaxFileSize + 1, TRUE, TRUE, Config(FALSE, "big")),
      ConfigFile("/etc/serverless.yml", TRUE, 120, TRUE, TRUE,
                 Config(FALSE, "etc")),
      ConfigFile("/work/app/services/empty/serverless.yml", TRUE, 0, TRUE,
                 TRUE, Config(TRUE, Undefined)),
      ConfigFile("/work/app/services/gone/serverless.yml", FALSE, 0, FALSE,
                 FALSE, Config(TRUE, Undefined)),
      ConfigFile("/work/app/services/locked/serverless.yml", TRUE, 120, FALSE,
                 TRUE, Config(FALSE, "locked")) }

\* What the glob may return: lists of distinct config files.
FoundFiles ==
    {files \in SeqUpTo(ConfigFiles, MaxFiles) :
        \A i, j \in DOMAIN files : files[i] = files[j] => i = j}

\* this.projectRoot
DetectorRoots == {"/work/app", "."}

\* ServerlessPatternDetector.isPathSafe
DetectorPathSafe(filePath, root) ==
    StartsWith(Resolve(filePath), Resolve(root))

\* loadYaml returns a configuration for the file instead of throwing.
LoadYaml(f, root) ==
    /\ DetectorPathSafe(f.path, root)
    /\ f.exists
    /\ f.size <= MaxFileSize
    /\ f.readable
    /\ f.parseable

\* A ServerlessService.
Service(name, path, configFile) ==
    [name |-> name, path |-> path, configFile |-> configFile,
     provider |-> "serverless", dependencies |-> <<>>]

\* parseService: the service of a file, in a list, or the empty list for
\* null. Reading config.service of what an empty file loads as throws.
ParsedService(f, root) ==
    IF LoadYaml(f, root) /\ ~f.config.empty
    THEN << Service(IF Truthy(f.config.service) THEN f.config.service
                    ELSE Basename(Dirname(f.path)),
                    Dirname(f.path), f.path) >>
    ELSE <<>>

\* services.filter(s => s !== null) on the results of Promise.all, which are
\* in the order of the files.
RECURSIVE NonNull(_)
NonNull(results) ==
    IF results = <<>> THEN <<>>
    ELSE Head(results) \o NonNull(Tail(results))

\* The serverless:before:pattern-detection notification.
BeforeDetectionEvent(root) ==
    [type |-> "serverless:before:pattern-detection", projectRoot |-> root]

\* The serverless:after:pattern-detection notification.
AfterDetectionEvent(p) ==
    [type |-> "serverless:after:pattern-detection", pattern |-> p,
     servicesFound |-> Len(p.services),
     services |-> [i \in DOMAIN p.services |-> p.services[i].name]]

\* A ServerlessPattern.
Pattern(services) == [type |-> "serverless", services |-> services]

\* A call scan() is made on a detector of some project root; the glob will
\* find some list of config files.
InitDetector ==
    /\ PluginIdle
    /\ InspectorIdle
    /\ ScannerIdle
    /\ LocalIdle
    /\ ReloadIdle
    /\ env = <<>>
    /\ events = <<>>
    /\ dpc = "called"
    /\ detectorRoot \in DetectorRoots
    /\ found \in FoundFiles
    /\ pending = {}
    /\ parsed = <<>>
    /\ pattern = NoPattern

\* emitBeforeEvent
EmitBeforeDetection ==
    /\ dpc = "called"
    /\ events' = Append(events, BeforeDetectionEvent(detectorRoot))
    /\ dpc' = "globbing"
    /\ UNCHANGED <<pluginVars, env, inspectorVars, scannerVars, localVars, reloadVars, detectorRoot,
                   found, pending, parsed, pattern>>

\* findServerlessConfigs, and the start of parseService for every file; or
\* the glob rejects and scan rejects with it.
FindServerlessConfigs ==
    /\ dpc = "globbing"
    /\ \/ /\ pending' = DOMAIN found
          /\ parsed' = [i \in DOMAIN found |-> <<>>]
          /\ dpc' = "parsing"
       \/ /\ dpc' = "raised"
          /\ UNCHANGED <<pending, parsed>>
    /\ UNCHANGED <<pluginVars, env, events, inspectorVars, scannerVars, localVars, reloadVars,
                   detectorRoot, found, pattern>>

\* Mutant of ParseService: the error of loadYaml is rethrown.
ParseServiceRethrow(i) ==
    /\ dpc = "parsing"
    /\ i \in pending
    /\ pending' = pending \ {i}
    /\ parsed' = [parsed EXCEPT ![i] = ParsedService(found[i], detectorRoot)]
    /\ dpc' = IF ParsedService(found[i], detectorRoot) = <<>>
              THEN "raised" ELSE dpc
    /\ UNCHANGED <<pluginVars, env, events, inspectorVars, scannerVars, localVars, reloadVars,
                   detectorRoot, found, pattern>>

\* parseService(files[i]) settles; the calls settle in any order.
ParseService(i) ==
    /\ dpc = "parsing"
    /\ i \in pending
    /\ pending' = pending \ {i}
    /\ parsed' = [parsed EXCEPT ![i] = ParsedService(found[i], detectorRoot)]
    /\ UNCHANGED <<pluginVars, env, events, inspectorVars, scannerVars, localVars, reloadVars, dpc,
                   detectorRoot, found, pattern>>

\* Promise.all has settled: the pattern is built, notified and returned.
ReturnPattern ==
    /\ dpc = "parsing"
    /\ pending = {}
    /\ pattern' = Pattern(NonNull(parsed))
    /\ events' = Append(events, AfterDetectionEvent(Pattern(NonNull(parsed))))
    /\ dpc' = "returned"
    /\ UNCHANGED <<pluginVars, env, inspectorVars, scannerVars, localVars, reloadVars, detectorRoot,
                   found, pending, parsed>>

NextDetector ==
    \/ EmitBeforeDetection
    \/ FindServerlessConfigs
    \/ \E i \in 1..MaxFiles : ParseService(i)
    \/ ReturnPattern

SpecDetector == InitDetector /\ [][NextDetector]_vars

-----------------------------------------------------------------------------
(* ServerlessPlugin.deployServiceLocal, step by step *)

\* What spawning the CLI with one argument list ends with: exit code 0, a
\* non-zero exit code, or the process cannot be spawned.
CliOutcomes == {"ok", "exit-1", "spawn-error"}

\* ServerlessCLI.execute: the message of the error the promise rejects with.
ExecuteError(outcome) ==
    IF outcome = "spawn-error" THEN <<"spawn serverless ENOENT">>
    ELSE <<"Serverless command failed with code ", "1", ": ", "stderr">>

\* The argument lists ServerlessCLI spawns the CLI with.
VersionArgs == <<"--version">>
StageArgs(command, stage, region) ==
    <<command, "--stage", stage>>
    \o (IF Truthy(region) THEN <<"--region", region>> ELSE <<>>)
PackageArgs(stage, region) == StageArgs("package", stage, region)
DeployArgs(stage, region) == StageArgs("deploy", stage, region)
InfoArgs(stage) == <<"info", "--stage", stage, "--verbose">>

\* What `serverless info --verbose` prints: nothing, endpoints and
\* functions, functions only, endpoints only.
InfoOutputs ==
    { "",
      "endpoints:\n  GET - https://x/dev/hello\nfunctions:\n  hello: api-dev-hello\n",
      "functions:\n  hello: api-dev-hello\n\n  bye: api-dev-bye",
      "endpoints:\n  GET - https://x/dev/hello\n" }

\* group.trim().split('\n').filter(e => e.trim())
InfoLines(group) ==
    SelectSeq(Split(Trim(group), "\n"), LAMBDA e : Trim(e) # "")

\* ServerlessPlugin.parseServiceInfo
ParseServiceInfo(info) ==
    LET e       == IndexOf(info, "endpoints:")
        afterE  == SubSeq(info, e + Len("endpoints:"), Len(info))
        ef      == IndexOf(afterE, "functions:")
        f       == IndexOf(info, "functions:")
        afterF  == SubSeq(info, f + Len("functions:"), Len(info))
    IN  (IF e # 0 /\ ef # 0
         THEN <<Var("endpoints", InfoLines(SubSeq(afterE, 1, ef - 1)))>>
         ELSE <<>>)
        \o (IF f # 0 THEN <<Var("functions", InfoLines(afterF))>> ELSE <<>>)

\* ServerlessPlugin.shouldEnableHotReload
ShouldEnableHotReload(o) == o.stage = "local" \/ o.stage = "dev"

\* The services and options of the calls explored.
LocalServices ==
    { [name |-> "api", path |-> "services/api", configFile |-> c] :
        c \in {Undefined, "services/api/serverless.yml"} }
LocalOptions ==
    [stage : {"local", "prod"}, region : {Undefined, "eu-west-1"},
     dryRun : BOOLEAN]

\* The plugin after initialize: its three listeners are registered, and
\* this.hotReload is set when hotReloading is enabled.
SubscribedEvents ==
    {"orchestrator:before:pattern-detection", "localstack:ready",
     "environment:scan:completed"}
Initialized(enabled) ==
    /\ hpc = "initialized"
    /\ hotReload = enabled
    /\ listeners = SubscribedEvents
    /\ handled = <<>>
    /\ watchers = [n \in ServiceNames |-> NoWatcher]
    /\ opened = {}
    /\ tasks = {}
    /\ calls = 0
    /\ created = 0

\* A call deployServiceLocal(service, options) is made on an initialized
\* plugin.
InitLocal ==
    /\ PluginIdle
    /\ InspectorIdle
    /\ ScannerIdle
    /\ DetectorIdle
    /\ \E enabled \in BOOLEAN : Initialized(enabled)
    /\ env = <<>>
    /\ events = <<>>
    /\ lpc = "called"
    /\ service \in LocalServices
    /\ configExists \in BOOLEAN
    /\ service.configFile = Undefined => ~configExists
    /\ options \in LocalOptions
    /\ commands = <<>>
    /\ serviceOutputs = <<>>
    /\ localCaught = NoError
    /\ localThrown = NoError

\* The before:service-deploy notification, the first statement of the call.
EmitBeforeDeploy ==
    /\ lpc = "called"
    /\ events' = Append(events,
                   Event("serverless:before:service-deploy", TRUE, NoError))
    /\ lpc' = "config"
    /\ UNCHANGED <<pluginVars, env, inspectorVars, scannerVars, detectorVars,
                   reloadVars, service, configExists, options, commands,
                   serviceOutputs, localCaught, localThrown>>

\* if (!service.configFile || !fs.existsSync(service.configFile)) throw ...
CheckConfigFile ==
    /\ lpc = "config"
    /\ IF ~Truthy(service.configFile) \/ ~configExists
       THEN /\ localCaught' =
                 <<"Serverless configuration file not found: ",
                   IF Truthy(service.configFile) THEN service.configFile
                   ELSE "serverless.yml">>
            /\ lpc' = "catch"
       ELSE /\ localCaught' = localCaught
            /\ lpc' = "cli"
    /\ UNCHANGED <<pluginVars, env, events, inspectorVars, scannerVars,
                   detectorVars, reloadVars, service, configExists, options,
                   commands, serviceOutputs, localThrown>>

\* if (!(await this.cli.hasServerlessCLI())) throw ...; then the
\* before:service-package notification.
HasServerlessCLI ==
    /\ lpc = "cli"
    /\ commands' = Append(commands, VersionArgs)
    /\ \E outcome \in CliOutcomes :
         IF outcome # "ok"
         THEN /\ localCaught' =
                   <<"Serverless Framework CLI not found. Please install it: npm install -g serverless">>
              /\ events' = events
              /\ lpc' = "catch"
         ELSE /\ localCaught' = localCaught
              /\ events' = Append(events,
                     Event("serverless:before:service-package", TRUE, NoError))
              /\ lpc' = "package"
    /\ UNCHANGED <<pluginVars, env, inspectorVars, scannerVars, detectorVars,
                   reloadVars, service, configExists, options, serviceOutputs,
                   localThrown>>

\* Mutant of Package: the deploy phase follows whatever options.dryRun is.
PackageIgnoringDryRun ==
    /\ lpc = "package"
    /\ commands' = Append(commands, PackageArgs(options.stage, options.region))
    /\ \E outcome \in CliOutcomes :
         IF outcome # "ok"
         THEN /\ localCaught' = ExecuteError(outcome)
              /\ events' = events
              /\ lpc' = "catch"
         ELSE /\ localCaught' = localCaught
              /\ events' = Append(events,
                     Event("serverless:after:service-package", TRUE, NoError))
              /\ lpc' = "deploy"
    /\ UNCHANGED <<pluginVars, env, inspectorVars, scannerVars, detectorVars,
                   reloadVars, service, configExists, options, serviceOutputs,
                   localThrown>>

\* await this.cli.package(...), the after:service-package notification, and
\* the test of options.dryRun.
Package ==
    /\ lpc = "package"
    /\ commands' = Append(commands, PackageArgs(options.stage, options.region))
    /\ \E outcome \in CliOutcomes :
         IF outcome # "ok"
         THEN /\ localCaught' = ExecuteError(outcome)
              /\ events' = events
              /\ lpc' = "catch"
         ELSE /\ localCaught' = localCaught
              /\ events' = Append(events,
                     Event("serverless:after:service-package", TRUE, NoError))
              /\ lpc' = IF ~options.dryRun THEN "deploy" ELSE "info"
    /\ UNCHANGED <<pluginVars, env, inspectorVars, scannerVars, detectorVars,
                   reloadVars, service, configExists, options, serviceOutputs,
                   localThrown>>

\* await this.cli.deploy(...)
Deploy ==
    /\ lpc = "deploy"
    /\ commands' = Append(commands, DeployArgs(options.stage, options.region))
    /\ \E outcome \in CliOutcomes :
         IF outcome # "ok"
         THEN /\ localCaught' = ExecuteError(outcome)
              /\ lpc' = "catch"
         ELSE /\ localCaught' = localCaught
              /\ lpc' = "info"
    /\ UNCHANGED <<pluginVars, env, events, inspectorVars, scannerVars,
                   detectorVars, reloadVars, service, configExists, options,
                   serviceOutputs, localThrown>>

\* const outputs = await this.extractServiceOutputs(...): a failing info
\* command gives {}; then the after:service-deploy notification of the
\* success path and the test for hot reloading.
ExtractServiceOutputs ==
    /\ lpc = "info"
    /\ commands' = Append(commands, InfoArgs(options.stage))
    /\ \/ \E info \in InfoOutputs : serviceOutputs' = ParseServiceInfo(info)
       \/ serviceOutputs' = <<>>
    /\ events' = Append(events,
                   Event("serverless:after:service-deploy", TRUE, NoError))
    /\ lpc' = IF hotReload /\ ShouldEnableHotReload(options)
              THEN "watching" ELSE "returned"
    /\ UNCHANGED <<pluginVars, env, inspectorVars, scannerVars, detectorVars,
                   reloadVars, service, configExists, options, localCaught,
                   localThrown>>

\* await this.hotReload.startWatching(service), with no other call under
\* way: the watcher is created and registered, or startWatching rejects.
StartWatchingAfterDeploy ==
    /\ lpc = "watching"
    /\ \/ /\ created' = created + 1
          /\ opened' = opened \cup {Watcher(created + 1, service.name)}
          /\ watchers' = [watchers EXCEPT ![service.name] =
                             Watcher(created + 1, service.name)]
          /\ localCaught' = localCaught
          /\ lpc' = "returned"
       \/ /\ localCaught' = <<"watcher error">>
          /\ lpc' = "catch"
          /\ UNCHANGED <<created, opened, watchers>>
    /\ UNCHANGED <<pluginVars, env, events, inspectorVars, scannerVars,
                   detectorVars, hpc, hotReload, listeners, handled, tasks,
                   calls, service, configExists, options, commands,
                   serviceOutputs, localThrown>>

\* The catch block: the after:service-deploy notification with success
\* false, then the error is thrown again.
CatchLocal ==
    /\ lpc = "catch"
    /\ events' = Append(events,
                   Event("serverless:after:service-deploy", FALSE, localCaught))
    /\ localThrown' = localCaught
    /\ lpc' = "raised"
    /\ UNCHANGED <<pluginVars, env, inspectorVars, scannerVars, detectorVars,
                   reloadVars, service, configExists, options, commands,
                   serviceOutputs, localCaught>>

NextLocal ==
    \/ EmitBeforeDeploy
    \/ CheckConfigFile
    \/ HasServerlessCLI
    \/ Package
    \/ Deploy
    \/ ExtractServiceOutputs
    \/ StartWatchingAfterDeploy
    \/ CatchLocal

SpecLocal == InitLocal /\ [][NextLocal]_vars

-----------------------------------------------------------------------------
(* ServerlessPlugin.initialize / cleanup and ServerlessHotReload *)

\* Asynchronous calls of the hot reloader explored, watchers created, and
\* bus events delivered.
MaxCalls == 3
MaxWatchers == 3
MaxHandled == 2

\* An asynchronous call suspended at an await.  op is "start" for
\* startWatching, "fail" for its catch block, "stop" for a
\* stopWatchingService called by stopWatching or by an error callback; at is
\* "closing" at `await watcher.close()` and "stopped" at the
\* `await this.stopWatchingService(...)` of startWatching once that call
\* has resolved; owner is who awaits the call.
Task(id, op, name, at, owner) ==
    [id |-> id, op |-> op, service |-> name, at |-> at, owner |-> owner]

\* Array.from(this.watchers.keys())
WatchedNames == {n \in ServiceNames : watchers[n] # NoWatcher}

\* The place of a name among the keys, in the order chosen for the model.
KeyIndex(n) ==
    Cardinality({k \in WatchedNames : k = "api" \/ k = n})

\* stopWatchingService up to its await, for each name of the set: the
\* watcher registered for the name is told to close.
ClosedBy(names) == {watchers[n] : n \in names \cap WatchedNames}

\* stopWatching up to its await: one stopWatchingService call per key.
StopCalls(owner) ==
    {Task(calls + KeyIndex(n), "stop", n, "closing", owner) :
        n \in WatchedNames}

InitLifecycle ==
    /\ PluginIdle
    /\ InspectorIdle
    /\ ScannerIdle
    /\ DetectorIdle
    /\ LocalIdle
    /\ ReloadIdle
    /\ env = <<>>
    /\ events = <<>>

\* ServerlessPlugin.initialize: the hot reloader is created when
\* hotReloading is enabled, then subscribeToEvents registers the listeners.
Initialize ==
    /\ hpc = "constructed"
    /\ hotReload' \in BOOLEAN
    /\ listeners' = listeners \cup SubscribedEvents
    /\ hpc' = "initialized"
    /\ UNCHANGED <<pluginVars, env, events, inspectorVars, scannerVars,
                   detectorVars, localVars, handled, watchers, opened, tasks,
                   calls, created>>

\* The event bus delivers an event of a type the plugin subscribes to: the
\* plugin's listener for the type runs when one is registered.
EmitBusEvent(type) ==
    /\ hpc # "constructed"
    /\ Len(handled) < MaxHandled
    /\ type \in listeners
    /\ handled' = Append(handled, [type |-> type, cleaned |-> hpc = "cleaned"])
    /\ UNCHANGED <<pluginVars, env, events, inspectorVars, scannerVars,
                   detectorVars, localVars, hpc, hotReload, listeners,
                   watchers, opened, tasks, calls, created>>

\* startWatching(service) up to its first await,
\* `await this.stopWatchingService(service.name)`.
StartWatching(name) ==
    /\ hpc # "constructed"
    /\ hotReload
    /\ calls < MaxCalls
    /\ calls' = calls + 1
    /\ opened' = opened \ ClosedBy({name})
    /\ tasks' = tasks \cup
          {Task(calls + 1, "start", name,
                IF name \in WatchedNames THEN "closing" ELSE "stopped",
                "caller")}
    /\ UNCHANGED <<pluginVars, env, events, inspectorVars, scannerVars,
                   detectorVars, localVars, hpc, hotReload, listeners,
                   handled, watchers, created>>

\* stopWatchingService after `await watcher.close()`:
\* this.watchers.delete(serviceName).  A startWatching that awaited it goes
\* on; its catch block throws the error again.
FinishClose(t) ==
    /\ t \in tasks
    /\ t.at = "closing"
    /\ watchers' = [watchers EXCEPT ![t.service] = NoWatcher]
    /\ tasks' = IF t.op = "start"
                THEN (tasks \ {t}) \cup {[t EXCEPT !.at = "stopped"]}
                ELSE tasks \ {t}
    /\ UNCHANGED <<pluginVars, env, events, inspectorVars, scannerVars,
                   detectorVars, localVars, hpc, hotReload, listeners,
                   handled, opened, calls, created>>

\* startWatching after its first await: chokidar.watch returns a watcher,
\* which is registered under the name, or it throws and the catch block
\* calls stopWatchingService.
CreateWatcher(t) ==
    /\ t \in tasks
    /\ t.op = "start"
    /\ t.at = "stopped"
    /\ \/ /\ created < MaxWatchers
          /\ created' = created + 1
          /\ opened' = opened \cup {Watcher(created + 1, t.service)}
          /\ watchers' = [watchers EXCEPT ![t.service] =
                             Watcher(created + 1, t.service)]
          /\ tasks' = tasks \ {t}
       \/ /\ opened' = opened \ ClosedBy({t.service})
          /\ tasks' = IF t.service \in WatchedNames
                      THEN (tasks \ {t}) \cup
                           {[t EXCEPT !.op = "fail", !.at = "closing"]}
                      ELSE tasks \ {t}
          /\ UNCHANGED <<created, watchers>>
    /\ UNCHANGED <<pluginVars, env, events, inspectorVars, scannerVars,
                   detectorVars, localVars, hpc, hotReload, listeners,
                   handled, calls>>

\* stopWatching() up to its await of Promise.all.
StopWatching ==
    /\ hpc # "constructed"
    /\ hotReload
    /\ WatchedNames # {}
    /\ calls + Cardinality(WatchedNames) <= MaxCalls
    /\ calls' = calls + Cardinality(WatchedNames)
    /\ opened' = opened \ ClosedBy(ServiceNames)
    /\ tasks' = tasks \cup StopCalls("caller")
    /\ UNCHANGED <<pluginVars, env, events, inspectorVars, scannerVars,
                   detectorVars, localVars, hpc, hotReload, listeners,
                   handled, watchers, created>>

\* An open watcher emits 'error': its callback calls
\* stopWatchingService(service.name).
WatcherError(w) ==
    /\ w \in opened
    /\ w.service \in WatchedNames
    /\ calls < MaxCalls
    /\ calls' = calls + 1
    /\ opened' = opened \ ClosedBy({w.service})
    /\ tasks' = tasks \cup
          {Task(calls + 1, "stop", w.service, "closing", "watcher")}
    /\ UNCHANGED <<pluginVars, env, events, inspectorVars, scannerVars,
                   detectorVars, localVars, hpc, hotReload, listeners,
                   handled, watchers, created>>

\* ServerlessPlugin.cleanup up to `await this.hotReload.stopWatching()`.
Cleanup ==
    /\ hpc = "initialized"
    /\ hpc' = "cleaning"
    /\ IF hotReload
       THEN /\ calls' = calls + Cardinality(WatchedNames)
            /\ opened' = opened \ ClosedBy(ServiceNames)
            /\ tasks' = tasks \cup StopCalls("cleanup")
       ELSE UNCHANGED <<calls, opened, tasks>>
    /\ UNCHANGED <<pluginVars, env, events, inspectorVars, scannerVars,
                   detectorVars, localVars, hotReload, listeners, handled,
                   watchers, created>>

\* ServerlessPlugin.cleanup after stopWatching has resolved: the two
\* removeAllListeners calls.
FinishCleanup ==
    /\ hpc = "cleaning"
    /\ \A t \in tasks : t.owner # "cleanup"
    /\ listeners' = listeners \ {"orchestrator:before:pattern-detection",
                                 "localstack:ready"}
    /\ hpc' = "cleaned"
    /\ UNCHANGED <<pluginVars, env, events, inspectorVars, scannerVars,
                   detectorVars, localVars, hotReload, handled, watchers,
                   opened, tasks, calls, created>>

NextLifecycle ==
    \/ Initialize
    \/ \E type \in SubscribedEvents : EmitBusEvent(type)
    \/ \E name \in ServiceNames : StartWatching(name)
    \/ \E t \in tasks : FinishClose(t)
    \/ \E t \in tasks : CreateWatcher(t)
    \/ StopWatching
    \/ \E w \in opened : WatcherError(w)
    \/ Cleanup
    \/ FinishCleanup

SpecLifecycle == InitLifecycle /\ [][NextLifecycle]_vars

-----------------------------------------------------------------------------
(* Properties *)

\* The three gates a dependency has to pass.
Gates == {"inspectStack", "readiness", "validateEnvironmentVariables"}

\* Positions of the trace holding a step of the given kind.
StepsOf(op) == {p \in DOMAIN trace : trace[p].op = op}

\* Positions of the notifications of the given type.
EventsOf(type) == {p \in DOMAIN events : events[p].type = type}

\* The request has reached a terminal state.
Terminal == pc \in {"success", "failed"}

\* Dependency k has passed gate g before position p of the trace.
PassedBefore(k, g, p) ==
    \E q \in 1..(p - 1) :
        trace[q].op = g /\ trace[q].dep = k /\ trace[q].ok

\* Every declared dependency has passed every gate.
AllGatesPassed ==
    \A k \in 1..Len(deps) : \A g \in Gates : PassedBefore(k, g, Len(trace) + 1)

\* C1: deployServiceLocal is invoked only after every declared dependency
\* has passed inspection, the readiness gate and environment resolution;
\* it is invoked exactly once when all gates pass and never when a gate
\* fails.
C1_LocalDeployAfterAllGates ==
    LET L == StepsOf("deployServiceLocal")
    IN  /\ Cardinality(L) <= 1
        /\ \A p \in L : \A k \in 1..Len(deps) : \A g \in Gates :
               PassedBefore(k, g, p)
        /\ (\E q \in DOMAIN trace : trace[q].op \in Gates /\ ~trace[q].ok)
               => L = {}
        /\ (AllGatesPassed /\ pc \in {"success", "catch", "failed"})
               => Cardinality(L) = 1

C1_Witness ==
    /\ pc = "success"
    /\ Len(deps) = 2
    /\ Cardinality(StepsOf("deployServiceLocal")) = 1

\* C2: every request emits exactly one started and exactly one completed
\* notification, the started one first, whatever the outcome; on failure
\* the completed notification has success false and carries the error, and
\* the error is raised to the caller only once that notification is out.
C2_OneStartOneCompletion ==
    LET S == EventsOf("serverless:remote:deploy:started")
        C == EventsOf("serverless:remote:deploy:completed")
    IN  /\ pc = "idle" => events = <<>>
        /\ pc # "idle" => S = {1}
        /\ ~Terminal => C = {}
        /\ Terminal => C = {Len(events)} /\ Len(events) > 1
        /\ pc = "failed" =>
              /\ thrown # NoError
              /\ events[Len(events)] = CompletedEvent(FALSE, thrown)
        /\ pc = "success" =>
              /\ thrown = NoError
              /\ events[Len(events)] = CompletedEvent(TRUE, NoError)
        /\ thrown # NoError => C # {}

C2_Witness ==
    /\ pc = "failed"
    /\ thrown = LocalError("deploy-failed")
    /\ Len(deps) = 2

\* C3: the request short-circuits at the first unmet gate: a failed gate
\* of dependency k is the last step the request takes, nothing is done for
\* a dependency declared after k, nothing is injected for k, and the
\* request is on its way to the failed state.
C3_ShortCircuit ==
    \A q \in DOMAIN trace :
        (trace[q].op \in Gates /\ ~trace[q].ok) =>
            /\ q = Len(trace)
            /\ pc \in {"catch", "failed"}
            /\ idx = trace[q].dep
            /\ \A r \in DOMAIN trace : trace[r].dep <= trace[q].dep
            /\ \A r \in StepsOf("inject") : trace[r].dep < trace[q].dep
            /\ \A n \in (DOMAIN env \cup DOMAIN trace[q].env) \ {"AWS_PROFILE"} :
                   Get(env, n) = Get(trace[q].env, n)

C3_Witness ==
    /\ pc = "failed"
    /\ Len(deps) = 2
    /\ idx = 1
    /\ trace[Len(trace)].op = "readiness"

\* C4: the dependencies are processed one at a time in declaration order:
\* the k-th inspection is that of the k-th declared dependency, no
\* dependency is inspected (or taken through any other step) twice, and the
\* inspection of a dependency directly follows the injection of its
\* predecessor's resolved variables, which the process environment then
\* holds.
C4_OneAtATimeInOrder ==
    LET I == StepsOf("inspectStack")
    IN  /\ \A p \in I : trace[p].dep = Cardinality({q \in I : q <= p})
        /\ \A p, q \in DOMAIN trace :
               (trace[p].op = trace[q].op /\ trace[p].dep = trace[q].dep)
                   => p = q
        /\ \A p \in I : trace[p].dep > 1 =>
               /\ trace[p - 1].op = "inject"
               /\ trace[p - 1].dep = trace[p].dep - 1
               /\ \E r \in 1..(p - 1) :
                      /\ trace[r].op = "validateEnvironmentVariables"
                      /\ trace[r].dep = trace[p].dep - 1
                      /\ trace[r].ok
                      /\ \A i \in DOMAIN trace[r].vars :
                             Get(trace[p].env, trace[r].vars[i].name)
                                 = trace[r].vars[i].value

C4_Witness ==
    \E p, q \in StepsOf("inspectStack") :
        /\ trace[p].dep = 1
        /\ trace[q].dep = 2
        /\ "DB_HOST" \notin DOMAIN trace[p].env
        /\ Get(trace[q].env, "DB_HOST") = "y"

\* C5: every variable a dependency's environment resolution resolved is in
\* the process environment, with the resolved value, when the next
\* dependency is inspected and when the delegated local deployment starts:
\* the local deployment observes all variables resolved for all
\* dependencies.
C5_ResolvedVariablesInjected ==
    \A p \in StepsOf("validateEnvironmentVariables") :
        trace[p].ok =>
            /\ \A q \in DOMAIN trace :
                   (q > p /\ trace[q].op \in {"inspectStack", "deployServiceLocal"})
                       => \A i \in DOMAIN trace[p].vars :
                              Get(trace[q].env, trace[p].vars[i].name)
                                  = trace[p].vars[i].value
            /\ (pc \in {"inspecting", "deploying"})
                   => \A i \in DOMAIN trace[p].vars :
                          Get(env, trace[p].vars[i].name) = trace[p].vars[i].value

C5_Witness ==
    /\ pc = "success"
    /\ Len(deps) = 2
    /\ DOMAIN trace[1].env = {}
    /\ \E q \in StepsOf("deployServiceLocal") :
           /\ Get(trace[q].env, "DB_HOST") = "x"
           /\ Get(trace[q].env, "API_KEY") = "y"

\* The elements of a sequence.
Range(seq) == {seq[i] : i \in DOMAIN seq}

\* The message holds the fragments frag, next to each other and in order.
Contains(msg, frag) ==
    \E i \in 1..(Len(msg) - Len(frag) + 1) :
        SubSeq(msg, i, i + Len(frag) - 1) = frag

\* The message ends with the fragments frag.
EndsWith(msg, frag) ==
    /\ Len(frag) <= Len(msg)
    /\ SubSeq(msg, Len(msg) - Len(frag) + 1, Len(msg)) = frag

\* The fragments of a message up to the end of its first line.
RECURSIVE FirstLine(_)
FirstLine(msg) ==
    IF msg = <<>> \/ Head(msg) = "\n" THEN <<>>
    ELSE <<Head(msg)>> \o FirstLine(Tail(msg))

\* The names listed on the line of the message that starts with header.
ListedAfter(msg, header) ==
    IF \E i \in DOMAIN msg : msg[i] = header
    THEN LET i == CHOOSE j \in DOMAIN msg : msg[j] = header
         IN  Range(FirstLine(SubSeq(msg, i + 1, Len(msg)))) \ {", "}
    ELSE {}

\* The failed request reports the caught error: in the completed
\* notification and to the caller.
Reported ==
    pc = "failed" =>
        /\ thrown = caught
        /\ events[Len(events)] = CompletedEvent(FALSE, caught)

\* No resolution or injection step was taken for the current dependency.
NothingResolvedOrInjected ==
    \A r \in DOMAIN trace :
        trace[r].dep = idx =>
            trace[r].op \notin {"validateEnvironmentVariables", "inject"}

\* C6: when the Stack Inspector returns success=false for a dependency the
\* request fails terminally, and the error raised to the caller and carried
\* by the completed notification names the stack and ends with the
\* inspector's error, unchanged.
C6_InspectorErrorSurfaced ==
    (stackInspector /\ \E q \in StepsOf("inspectStack") : ~trace[q].ok) =>
        /\ pc \in {"catch", "failed"}
        /\ ~inspectionResult.success
        /\ inspectionResult.error # NoError
        /\ EndsWith(caught, inspectionResult.error)
        /\ Contains(caught, <<deps[idx]>>)
        /\ Reported

C6_Witness ==
    /\ pc = "failed"
    /\ idx = 2
    /\ inspectionResult.error = <<"socket hang up">>
    /\ EndsWith(thrown, <<"socket hang up">>)

\* C7: when an inspected dependency has readyForDeployment=false the
\* request fails terminally with an error that names the stack and reports
\* its current status, and neither environment resolution nor injection is
\* performed for that dependency.
C7_NotReadyFailsWithStatus ==
    (inspectionResult.success /\ ~inspectionResult.readyForDeployment
        /\ pc # "readiness") =>
        /\ pc \in {"catch", "failed"}
        /\ EndsWith(caught, <<" is not ready for deployment. Status: ",
                              inspectionResult.status>>)
        /\ Contains(caught, <<deps[idx]>>)
        /\ NothingResolvedOrInjected
        /\ env = trace[Len(trace)].env
        /\ Reported

C7_Witness ==
    /\ pc = "failed"
    /\ idx = 2
    /\ inspectionResult.success
    /\ inspectionResult.status = "ROLLBACK_COMPLETE"
    /\ EndsWith(thrown, <<"ROLLBACK_COMPLETE">>)

\* C8: when environment resolution for a dependency is invalid the request
\* fails terminally with a message that lists every missing variable, gives
\* for each the stack-derived candidate value, or the placeholder <value>
\* when there is none, and lists every variable name available from the
\* stack; nothing is injected for that dependency.
C8_MissingVariablesReported ==
    (Len(validation.missing) > 0) =>
        LET available == inspectionResult.environmentVariables
        IN  /\ pc \in {"catch", "failed"}
            /\ ~validation.valid
            /\ ListedAfter(caught, "Missing required environment variables: ")
                   = Range(validation.missing)
            /\ ListedAfter(caught, "Available from stack: ")
                   = Range(Keys(available))
            /\ \A i \in DOMAIN validation.missing :
                   LET v == validation.missing[i]
                       candidate == Lookup(available, v)
                   IN  Contains(caught,
                           <<"  - Set ", v, "=",
                             IF candidate \in {Undefined, ""}
                             THEN "<value>" ELSE candidate>>)
            /\ StepsOf("inject") \cap {r \in DOMAIN trace : trace[r].dep = idx} = {}
            /\ env = trace[Len(trace)].env
            /\ Reported

C8_Witness ==
    /\ pc = "failed"
    /\ idx = 2
    /\ validation.missing = <<"API_KEY", "DB_HOST">>
    /\ Contains(thrown, <<"  - Set ", "DB_HOST", "=", "<value>">>)

\* validateEnvironmentVariables has returned for the current dependency and
\* process.env is as it was during the call.
Resolved ==
    \/ pc = "injecting"
    \/ /\ pc \in {"catch", "failed"}
       /\ trace[Len(trace)].op = "validateEnvironmentVariables"

\* The name of the environment-scoped override of a variable.
OverrideName(name) ==
    (IF environment = "prod" THEN "PROD" ELSE "DEFAULT") \o "_" \o name

\* C9: each declared variable is resolved by fixed precedence: the ambient
\* process value of the bare name if defined, otherwise the override named
\* <UPPERCASED environment label>_<variable> if defined, otherwise the
\* stack-derived value.
C9_ResolutionPrecedence ==
    Resolved =>
        \A i \in DOMAIN inspectionResult.environmentVariables :
            LET v        == inspectionResult.environmentVariables[i]
                ambient  == Get(env, v.name)
                override == Get(env, OverrideName(v.name))
                value    == Lookup(validation.resolved, v.name)
            IN  /\ ambient # Undefined => value = ambient
                /\ (ambient = Undefined /\ override # Undefined)
                       => value = override
                /\ (ambient = Undefined /\ override = Undefined)
                       => value = v.value

C9_Witness ==
    /\ Resolved
    /\ environment = "prod"
    /\ inspectionResult.environmentVariables = <<Var("DB_HOST", "x")>>
    /\ "DB_HOST" \notin DOMAIN env
    /\ Get(env, "PROD_DB_HOST") = "override-db"
    /\ validation.resolved = <<Var("DB_HOST", "override-db")>>

\* C10 as stated: requirements {environmentVariables: {API_KEY: "x"}} with
\* no ambient value and no environment-scoped override give valid=false and
\* missing=["API_KEY"].
C10_DeclaredWithStackValueIsMissing ==
    ( /\ Resolved
      /\ inspectionResult.environmentVariables = <<Var("API_KEY", "x")>>
      /\ Get(env, "API_KEY") = Undefined
      /\ Get(env, OverrideName("API_KEY")) = Undefined )
    => /\ validation.valid = FALSE
       /\ validation.missing = <<"API_KEY">>

\* C10, amended: a declared variable is reported missing exactly when it
\* has no defined source: no ambient value, no environment-scoped override
\* and an undefined stack value; any missing variable makes the result
\* invalid.  For requirements {environmentVariables: {API_KEY: "x"}} with no
\* ambient value and no override the stack value is a defined source: the
\* result is valid=true, missing=[], resolved={API_KEY: "x"}.
C10_MissingIffNoSource ==
    Resolved =>
        /\ \A i \in DOMAIN inspectionResult.environmentVariables :
               LET v == inspectionResult.environmentVariables[i]
               IN  (v.name \in Range(validation.missing))
                   <=> /\ Get(env, v.name) = Undefined
                       /\ Get(env, OverrideName(v.name)) = Undefined
                       /\ v.value = Undefined
        /\ validation.missing # <<>> => ~validation.valid
        /\ ( /\ inspectionResult.environmentVariables = <<Var("API_KEY", "x")>>
             /\ Get(env, "API_KEY") = Undefined
             /\ Get(env, OverrideName("API_KEY")) = Undefined )
           => validation = [valid |-> TRUE, missing |-> <<>>,
                            resolved |-> <<Var("API_KEY", "x")>>]

C10_Witness ==
    /\ Resolved
    /\ inspectionResult.environmentVariables = <<Var("API_KEY", "x")>>
    /\ Get(env, "API_KEY") = Undefined
    /\ Get(env, OverrideName("API_KEY")) = Undefined
    /\ validation.valid

\* C11: in every result of validateEnvironmentVariables valid is true
\* exactly when missing is empty, and the keys of resolved together with
\* the entries of missing partition the declared variable names: each
\* declared name is in exactly one of them, and neither holds anything else.
C11_ValidIffNothingMissing ==
    Resolved =>
        LET declared == Range(Keys(inspectionResult.environmentVariables))
            resolved == Range(Keys(validation.resolved))
            missing  == Range(validation.missing)
        IN  /\ validation.valid <=> (validation.missing = <<>>)
            /\ resolved \cup missing = declared
            /\ resolved \cap missing = {}
            /\ Cardinality(resolved) = Len(validation.resolved)
            /\ Cardinality(missing) = Len(validation.missing)

C11_Witness ==
    /\ Resolved
    /\ inspectionResult.environmentVariables
           = <<Var("API_KEY", Undefined), Var("DB_HOST", "x")>>
    /\ validation = [valid |-> FALSE, missing |-> <<"API_KEY">>,
                     resolved |-> <<Var("DB_HOST", "x")>>]

-----------------------------------------------------------------------------
(* Properties of StackInspector.inspectStack *)

\* The inspectStack call has resolved, with requirements or without.
InspectionReturned == ipc = "returned"
InspectionSucceeded == ipc = "returned" /\ returned.success
InspectionFailed == ipc = "returned" /\ ~returned.success

\* The notifications that close an inspection.
ClosingEvents ==
    {p \in DOMAIN events :
        events[p].type \in {"serverless:after:stack-inspection",
                            "serverless:stack:inspection:failed"}}

\* C12: every inspectStack call emits before:stack-inspection first and
\* then exactly one of after:stack-inspection or stack:inspection:failed, on
\* every path: stack found, stack not found, exception during inspection.
C12_BeforeThenOneOutcome ==
    InspectionReturned =>
        /\ Len(events) = 2
        /\ events[1].type = "serverless:before:stack-inspection"
        /\ ClosingEvents = {2}

\* The text of an error given as the fragments of its template.
RECURSIVE Text(_)
Text(fragments) ==
    IF fragments = <<>> THEN "" ELSE Head(fragments) \o Text(Tail(fragments))

\* The recommendations are the first template that matches the message, in
\* the order authorization, validation, not-found, transient.
FirstMatchingTemplate(message, recommendations) ==
    LET authorization == \/ Includes(message, "AccessDenied")
                         \/ Includes(message, "UnauthorizedOperation")
        validation_   == Includes(message, "ValidationError")
        notFound      == Includes(message, "does not exist")
    IN  /\ authorization => recommendations = AuthorizationRecommendations
        /\ (~authorization /\ validation_)
              => recommendations = ValidationRecommendations
        /\ (~authorization /\ ~validation_ /\ notFound)
              => recommendations = NotFoundRecommendations
        /\ (~authorization /\ ~validation_ /\ ~notFound)
              => recommendations = TransientRecommendations

\* C13 as stated: a stack that is not found and any exception raised
\* during the inspection are all returned as {success: false, error,
\* recommendations} where recommendations is non-empty and is the first
\* matching template in the order authorization, validation, not-found,
\* transient.
C13_EveryFailureCarriesMatchingTemplate ==
    InspectionFailed =>
        /\ returned.recommendations # <<>>
        /\ FirstMatchingTemplate(Text(returned.error),
                                 returned.recommendations)

\* C13, amended: inspectStack never raises.  An exception raised while
\* creating the clients, describing the stack or deriving requirements is
\* returned as {success: false, error, recommendations} with the message of
\* the exception as error and, as recommendations, the first template its
\* message matches in the order authorization, validation, not-found,
\* transient.  A stack that is not found (ValidationError 'does not exist',
\* or an empty Stacks list) is returned as {success: false} with the error
\* "Stack '<name>' not found or not accessible" and a fixed list of three
\* recommendations of its own, which is none of the four templates.
C13_FailuresReturnedWithRecommendations ==
    /\ ipc \in {"called", "initializing", "describing", "probing",
                "deriving", "catch", "returned"}
    /\ InspectionFailed =>
          /\ returned.recommendations # <<>>
          /\ IF errorMessage # Undefined
             THEN /\ returned.error = <<errorMessage>>
                  /\ FirstMatchingTemplate(errorMessage,
                                           returned.recommendations)
             ELSE /\ Text(returned.error)
                        = "Stack '" \o stackName
                              \o "' not found or not accessible"
                  /\ returned.recommendations = StackNotFoundRecommendations
                  /\ returned.recommendations
                        \notin {AuthorizationRecommendations,
                                ValidationRecommendations,
                                NotFoundRecommendations,
                                TransientRecommendations}

C13_Witness ==
    /\ InspectionFailed
    /\ errorMessage = Undefined
    /\ returned.recommendations = StackNotFoundRecommendations

\* C14: readyForDeployment is true if and only if the stack status is
\* CREATE_COMPLETE or UPDATE_COMPLETE; every other status, an absent one
\* included, gives false, whatever profile, region or credentials the
\* caller passed.
C14_ReadyIffComplete ==
    InspectionSucceeded =>
        /\ returned.requirements.status = stackData.StackStatus
        /\ returned.requirements.readyForDeployment
              <=> stackData.StackStatus
                     \in {"CREATE_COMPLETE", "UPDATE_COMPLETE"}

C14_Witness ==
    /\ InspectionSucceeded
    /\ stackData.StackStatus = "UPDATE_ROLLBACK_COMPLETE"
    /\ profileConfig.accessKeyId = "AKIA"
    /\ ~returned.requirements.readyForDeployment

\* What a succeeded probe of the i-th prefix collected.
Collected(i) ==
    CollectParameters(GetParametersByPath(parameterStore, probed[i].path),
                      probed[i].path, <<>>)

\* C15: a failure while probing one of the four path prefixes does not
\* stop the remaining prefixes from being probed and never makes
\* inspectStack return success=false; the values collected from the
\* prefixes that succeeded are kept in the result (for a name collected
\* more than once, the value of the last prefix that gave it).
C15_ProbeFailuresTolerated ==
    /\ ipc \in {"deriving", "returned"} /\ Len(probed) > 0
          => /\ [i \in DOMAIN probed |-> probed[i].path]
                    = PathPatterns(stackName)
             /\ Len(probed) = 4
    /\ InspectionReturned /\ Len(probed) > 0 => returned.success
    /\ InspectionSucceeded =>
          \A i \in DOMAIN probed :
              probed[i].ok =>
                  \A k \in DOMAIN Collected(i) :
                      LET name == Collected(i)[k].name
                          kept == Lookup(returned.requirements.ssmParameters,
                                         name)
                      IN  /\ kept # Undefined
                          /\ (\A j \in (i + 1)..Len(probed) :
                                 probed[j].ok =>
                                     Lookup(Collected(j), name) = Undefined)
                                => kept = Collected(i)[k].value

C15_Witness ==
    /\ InspectionSucceeded
    /\ ~probed[1].ok
    /\ ~probed[2].ok
    /\ probed[3].ok
    /\ ~probed[4].ok
    /\ returned.requirements.ssmParameters = <<Var("api-key", "k1")>>

\* C16: when a configuration-store key and an output key map to the same
\* variable name, environmentVariables keeps the configuration-store value;
\* a name produced by only one of the two sources keeps that source's value.
C16_StoreWinsOnCollision ==
    InspectionSucceeded =>
        LET requirements == returned.requirements
            fromOutputs  == GenerateEnvVarsFromOutputs(requirements.outputs)
            fromStore    == GenerateEnvVarsFromSSM(requirements.ssmParameters)
            merged       == requirements.environmentVariables
        IN  /\ Range(Keys(merged))
                  = Range(Keys(fromOutputs)) \cup Range(Keys(fromStore))
            /\ Cardinality(Range(Keys(merged))) = Len(merged)
            /\ \A name \in Range(Keys(merged)) :
                  Lookup(merged, name)
                     = IF name \in Range(Keys(fromStore))
                       THEN Lookup(fromStore, name)
                       ELSE Lookup(fromOutputs, name)

C16_Witness ==
    /\ InspectionSucceeded
    /\ Lookup(returned.requirements.outputs, "DbHost") = "h1"
    /\ Lookup(returned.requirements.outputs, "VpcId") = "vpc-1"
    /\ returned.requirements.ssmParameters
          = <<Var("db/host", "store-db"), Var("api-key", "k1")>>
    /\ returned.requirements.environmentVariables
          = <<Var("VPC_ID", "vpc-1"), Var("DB_HOST", "store-db"),
              Var("API_KEY", "k1")>>

\* C17: the outputs and parameters of StackRequirements are copied verbatim
\* from the stack descriptor: every output key/value and every parameter
\* key/value of the descriptor appears unchanged in the result, entries
\* whose value is the empty string included, and nothing else appears.
C17_OutputsAndParametersVerbatim ==
    InspectionSucceeded =>
        LET requirements == returned.requirements
        IN  /\ \A i \in DOMAIN stackData.Outputs :
                  LET output == stackData.Outputs[i]
                  IN  (output.OutputKey # Undefined
                       /\ output.OutputValue # Undefined)
                      => Lookup(requirements.outputs, output.OutputKey)
                            = output.OutputValue
            /\ \A i \in DOMAIN requirements.outputs :
                  \E j \in DOMAIN stackData.Outputs :
                      stackData.Outputs[j]
                         = Output(requirements.outputs[i].name,
                                  requirements.outputs[i].value)
            /\ \A i \in DOMAIN stackData.Parameters :
                  LET param == stackData.Parameters[i]
                  IN  (param.ParameterKey # Undefined
                       /\ param.ParameterValue # Undefined)
                      => Lookup(requirements.parameters, param.ParameterKey)
                            = param.ParameterValue
            /\ \A i \in DOMAIN requirements.parameters :
                  \E j \in DOMAIN stackData.Parameters :
                      stackData.Parameters[j]
                         = Parameter(requirements.parameters[i].name,
                                     requirements.parameters[i].value)

\* C18: StackRequirements.dependencies contains no duplicate and never the
\* inspected stack's own name, whether an identifier came from the
\* Dependencies tag or from a stack ARN embedded in an output value.
C18_DependenciesDistinctWithoutSelf ==
    InspectionSucceeded =>
        LET dependencies == returned.requirements.dependencies
        IN  /\ Cardinality(Range(dependencies)) = Len(dependencies)
            /\ stackName \notin Range(dependencies)

\* The process environments a request may run against: those of the model
\* and the one the inspection left.
RequestEnvs == InitialEnvs \cup {env}

\* C33: whatever requirements inspectStack produces, each declared variable
\* has a defined stack value, so validateEnvironmentVariables returns valid
\* with nothing missing and every variable resolved, under each process
\* environment and environment label; the missing-variables failure cannot
\* follow an inspection.
C33_ProducedRequirementsAreValid ==
    InspectionSucceeded =>
        LET declared == returned.requirements.environmentVariables
        IN  /\ \A i \in DOMAIN declared : declared[i].value # Undefined
            /\ \A e \in RequestEnvs, label \in {"default", "prod"} :
                  LET v == ValidateEnvironmentVariables(e, label, declared)
                  IN  /\ v.valid
                      /\ v.missing = <<>>
                      /\ Keys(v.resolved) = Keys(declared)

\* An inspection of a stack with an output that has no value has succeeded
\* with variables the process environment does not define.
C33_Witness ==
    /\ InspectionSucceeded
    /\ \E i \in DOMAIN stackData.Outputs :
          /\ Truthy(stackData.Outputs[i].OutputKey)
          /\ stackData.Outputs[i].OutputValue = Undefined
    /\ returned.requirements.environmentVariables # <<>>
    /\ \A i \in DOMAIN returned.requirements.environmentVariables :
          returned.requirements.environmentVariables[i].name \notin DOMAIN env

-----------------------------------------------------------------------------
(* Properties of ServerlessDependencyScanner.scanDependencies *)

\* The call has resolved.
ScanReturned == spc = "returned"

\* One of the internal failures of a scan: the path check rejects the path,
\* the file is missing, over the size ceiling, unreadable, or not a
\* document.
ScanFails ==
    \/ ~IsPathSafe(configPath, projectRoot)
    \/ ~file.exists
    \/ file.size > MaxFileSize
    \/ ~file.readable
    \/ ~file.parseable

\* The directory `directory` itself or a path below it.
IsDescendant(path, directory) ==
    \/ path = directory
    \/ directory = "/"
    \/ StartsWith(path, directory \o "/")

\* C19: scanDependencies never raises: the call is never left with an
\* exception, and when the path is unsafe, the file is oversized, the
\* document is unparseable or an I/O operation fails, what it returns is the
\* empty list.
C19_ScanNeverRaises ==
    /\ spc \in {"called", "stat", "reading", "scanning", "importing", "catch",
                "returned"}
    /\ spc = "catch" => ScanFails
    /\ ScanReturned /\ ScanFails => scanned = <<>>

\* A call on a file that is read and is not a YAML document has returned.
C19_Witness ==
    /\ ScanReturned
    /\ IsPathSafe(configPath, projectRoot)
    /\ file.exists /\ file.size <= MaxFileSize /\ file.readable
    /\ ~file.parseable
    /\ accesses = <<"stat", "readFile">>
    /\ scanned = <<>>

\* C20: when the resolved configuration path is not a descendant of the
\* resolved project root (of the working directory when no root is given),
\* the call raises nothing, performs no file-system operation on the file
\* and returns the empty list.
C20_OutsideRootNeverRead ==
    ~IsDescendant(Resolve(configPath), BaseDir(projectRoot)) =>
        /\ spc # "raised"
        /\ accesses = <<>>
        /\ ScanReturned => scanned = <<>>

\* The call has returned what it found in a document it read.
ScanSucceeded == ScanReturned /\ ~ScanFails

\* seq, n times over.
RECURSIVE Times(_, _)
Times(seq, n) == IF n = 0 THEN <<>> ELSE seq \o Times(seq, n - 1)

\* The file-system operation op is among those performed.
Accessed(op) == \E i \in DOMAIN accesses : accesses[i] = op

\* C21: the path check is made before any file-system access (nothing is
\* accessed while the check is pending, and whatever is accessed belongs to
\* a path the check accepted), the size check is made before the content is
\* read or parsed, a file of exactly 10 MiB is read and scanned, and a
\* larger file is rejected without being read.
C21_SafetyChecksPrecedeReading ==
    /\ MaxFileSize = 10 * 1024 * 1024
    /\ spc = "called" => accesses = <<>>
    /\ accesses # <<>> => IsPathSafe(configPath, projectRoot)
    /\ Accessed("readFile") =>
          accesses = <<"stat", "readFile">> /\ file.size <= MaxFileSize
    /\ content # <<>> => Accessed("readFile")
    /\ file.size > MaxFileSize =>
          /\ ~Accessed("readFile")
          /\ content = <<>>
          /\ ScanReturned => scanned = <<>>
    /\ ScanReturned /\ file = File(TRUE, MaxFileSize, TRUE, TRUE,
                                   <<"vpcId: ${ssm:/vpc-stack/vpc-id}">>)
                    /\ IsPathSafe(configPath, projectRoot) =>
          accesses = <<"stat", "readFile">> /\ scanned = <<"vpc-stack">>

\* A file of exactly 10 MiB has been read and scanned.
C21_Witness ==
    /\ ScanReturned
    /\ file.size = MaxFileSize
    /\ accesses = <<"stat", "readFile">>
    /\ scanned = <<"vpc-stack">>

\* The document of the deduplication test: three parameter paths and one
\* stack-output reference, all of vpc-stack.
RepeatedReferences ==
    << "vpcId1: ${ssm:/vpc-stack/vpc-id}",
       "vpcId2: ${ssm:/vpc-stack/subnet-1}",
       "vpcId3: ${ssm:/vpc-stack/subnet-2}",
       "id: ${cf:vpc-stack.VpcId}" >>

C23_NoEmptyOrMalformedIdentifier ==
    ScanReturned =>
        /\ \A i \in DOMAIN scanned :
              scanned[i] # "" /\ ~Includes(scanned[i], "${")
        /\ content = << "broken1: ${ssm:}", "broken2: ${ssm:/}",
                        "broken3: ${cf:}", "broken4: ${cf:stack}" >> =>
              scanned = <<>>

\* The document holds no parameter path and no stack-output reference.
OnlyOtherKinds(document) ==
    /\ ~Includes(Dump(document), "${ssm:")
    /\ ~Includes(Dump(document), "${cf:")

\* C24: for a document whose references are all of other kinds, no
\* dependency is notified and the result is empty.
C24_OtherKindsGiveNothing ==
    OnlyOtherKinds(file.document) =>
        /\ events = <<>>
        /\ ScanReturned => scanned = <<>>

\* The document of opt:, env:, aws:, sls: and self: references has been
\* read and scanned.
C24_Witness ==
    /\ ScanReturned
    /\ Includes(Dump(content), "${opt:stage}")
    /\ Includes(Dump(content), "${self:service}")
    /\ OnlyOtherKinds(content)
    /\ accesses = <<"stat", "readFile">>
    /\ scanned = <<>>

\* C25: a parameter path in which one placeholder immediately precedes
\* -api-gateway-stack in a segment gives exactly api-gateway-stack, and a
\* path /vpc-stack/<anything> gives exactly vpc-stack.
C25_GatewayAndVpcPaths ==
    ScanSucceeded =>
        /\ content \in {DocumentOf(p) : p \in GatewayPaths} =>
              scanned = <<"api-gateway-stack">>
        /\ content \in {DocumentOf(p) : p \in VpcPaths} =>
              scanned = <<"vpc-stack">>

\* The positions of the dots of a payload.
Dots(payload) == {i \in 1..Len(payload) : CharAt(payload, i) = "."}

\* The last of a non-empty set of positions.
Last(positions) == CHOOSE i \in positions : \A j \in positions : j <= i

\* What a stack-output payload must be notified as: nothing when it has no
\* dot, nothing before its last dot or nothing after it, and otherwise the
\* part before the last dot, reduced when it holds a placeholder, with the
\* part after the last dot as output name.
ImportOf(payload) ==
    IF Dots(payload) = {} THEN <<>>
    ELSE LET dot    == Last(Dots(payload))
             before == SubSeq(payload, 1, dot - 1)
             after  == SubSeq(payload, dot + 1, Len(payload))
             target == IF Includes(before, "${")
                       THEN ExtractBaseStackName(before) ELSE before
         IN  IF before = "" \/ after = "" \/ target = Undefined THEN <<>>
             ELSE << <<target, after>> >>

\* What the stack-output payloads of a list must be notified as, in order.
RECURSIVE ImportsOf(_)
ImportsOf(payloads) ==
    IF payloads = <<>> THEN <<>>
    ELSE ImportOf(Head(payloads)) \o ImportsOf(Tail(payloads))

\* The target and the output name of the stack-output notifications.
ImportsNotified ==
    LET imports == SelectSeq(events, LAMBDA e : e.kind = "cloudformation")
    IN  [i \in DOMAIN imports |-> <<imports[i].target, imports[i].outputName>>]

\* C26: a stack-output reference is split at the last dot of its payload
\* into stack identifier and output name; a payload without a dot, with
\* nothing before the dot or nothing after it gives no dependency; a stack
\* part with a placeholder is reduced (${stage}-api-stack to api-stack,
\* dynamodb-${stage}-stack to dynamodb-stack).
C26_StackOutputSplitAtLastDot ==
    ScanSucceeded =>
        /\ ImportsNotified = Times(ImportsOf(CFReferences(content)), scans)
        /\ \A i \in DOMAIN ImportsNotified :
              ImportsNotified[i][1] \in Range(scanned)
        /\ content = << "appUrl: ${cf:my.app-stack.Url}",
                        "noStack: ${cf:.Url}",
                        "noOutput: ${cf:app-stack.}" >> =>
              scanned = <<"my.app-stack">>
        /\ Len(content) = 3 /\ content[2] =
              "apiUrl: ${cf:${self:provider.stage}-api-stack.RestApiUrl}" =>
              /\ "api-stack" \in Range(scanned)
              /\ "dynamodb-stack" \in Range(scanned)

\* A payload with two dots has been split at the second, and the payloads
\* with nothing on one side of the dot have given nothing.
C26_Witness ==
    /\ ScanSucceeded
    /\ scans = 1
    /\ Includes(Dump(content), "${cf:.Url}")
    /\ ImportsNotified = << <<"my.app-stack", "Url">> >>
    /\ scanned = <<"my.app-stack">>

\* The references of a list that give an identifier, as a number.
Yielding(references, dependency(_)) ==
    Cardinality({i \in DOMAIN references : Truthy(dependency(references[i]))})

\* C27: one notification is emitted for every reference occurrence that
\* gives an identifier; each names the source file and a target that is in
\* the returned set; a stack-output notification carries the output name of
\* a reference of the document, a parameter-path notification none.
C27_OneNotificationPerOccurrence ==
    ScanSucceeded =>
        /\ Len(events) =
              scans * (Yielding(SSMReferences(content), SSMDependency)
                       + Yielding(CFReferences(content), CFDependency))
        /\ \A i \in DOMAIN events :
              /\ events[i].type = "serverless:dependency:detected"
              /\ events[i].source = configPath
              /\ events[i].target \in Range(scanned)
              /\ events[i].kind \in {"ssm", "cloudformation"}
              /\ events[i].kind = "ssm" => events[i].outputName = Undefined
              /\ events[i].kind = "cloudformation" =>
                    \E r \in Range(CFReferences(content)) :
                        EndsWithText(r, "." \o events[i].outputName)

\* Four occurrences of one identifier have been notified four times.
C27_Witness ==
    /\ ScanSucceeded
    /\ scans = 1
    /\ content = RepeatedReferences
    /\ Len(events) = 4
    /\ events[4].kind = "cloudformation" /\ events[4].outputName = "VpcId"
    /\ scanned = <<"vpc-stack">>

\* The segments of a path that are not empty.
Segments(ssmPath) == SelectSeq(Split(ssmPath, "/"), LAMBDA p : p # "")

\* The first segment that satisfies the test, the fallback when none does.
FirstSegment(segments, Test(_), fallback) ==
    IF \E i \in DOMAIN segments : Test(segments[i])
    THEN segments[CHOOSE i \in DOMAIN segments :
                     Test(segments[i])
                     /\ \A j \in 1..(i - 1) : ~Test(segments[j])]
    ELSE fallback

\* The segment the second extraction step is to return for a path without
\* placeholders: the first one that holds the marker; when none does, the
\* first one of the allow-list; when none is, the first one.
PreferredSegment(ssmPath) ==
    FirstSegment(Segments(ssmPath), LAMBDA p : Includes(p, "stack"),
        FirstSegment(Segments(ssmPath), IsKnownStackName,
                     Segments(ssmPath)[1]))

\* C30: for a parameter path without placeholders, the result is the first
\* segment that holds the marker 'stack', even after a segment of the
\* allow-list (/vpc/core-stack/id gives core-stack); the allow-list counts
\* only when no segment holds the marker, and the first segment only when
\* neither applies.
C30_MarkerBeforeAllowList ==
    ScanSucceeded =>
        \A p \in PlainPaths :
            content = DocumentOf(p) => scanned = <<PreferredSegment(p)>>

\* The identifier is made of wildcard characters only.
WildcardOnly(name) == name # "" /\ RemoveWildcards(name) = ""

\* C31: the identifier extracted from a parameter path is never made of
\* wildcard characters only, also when placeholders are adjacent in one
\* segment: the path /${self:custom.a}${self:custom.b}/x gives x.
C31_NoWildcardOnlyIdentifier ==
    ScanSucceeded =>
        /\ \A i \in DOMAIN scanned : ~WildcardOnly(scanned[i])
        /\ content = DocumentOf("/${self:custom.a}${self:custom.b}/x") =>
              scanned = <<"x">>

\* The stack-output references of the document whose stack part is not
\* empty and holds a placeholder, and whose output name is not empty.
ReducedImports(document) ==
    SelectSeq(CFReferences(document),
              LAMBDA r : /\ LastIndexOf(r, ".") > 1
                         /\ OutputName(r) # ""
                         /\ Includes(StackPart(r), "${"))

\* C32: the base-name reducer returns null for the empty payload only, and
\* every identifier it returns ends with the marker 'stack': each reference
\* whose stack part holds a placeholder gives an identifier of the result,
\* and that identifier ends with 'stack'.
C32_ReducerGivesMarkedIdentifier ==
    ScanSucceeded =>
        \A i \in DOMAIN ReducedImports(content) :
            LET name == ExtractBaseStackName(
                            StackPart(ReducedImports(content)[i]))
            IN  /\ name # Undefined
                /\ EndsWithText(name, "stack")
                /\ \E j \in DOMAIN scanned : scanned[j] = name

-----------------------------------------------------------------------------
(* Properties of the process environment *)

\* C28: the process environment is written by the injection step of the
\* request only: every other step, the steps of inspectStack under each
\* profile configuration included, leaves every variable of the process
\* environment as it was.
C28_OnlyInjectionWritesEnvironment ==
    [][InjectVariables \/ env' = env]_vars

\* process.env when the request started: the first step of the trace
\* records the environment it ran against.
StartEnv == trace[1].env

\* Neither an ambient value nor an environment-scoped override of the
\* variable existed when the request started.
AbsentAtStart(name) ==
    /\ name \notin DOMAIN StartEnv
    /\ (ToUpperCase(EnvironmentLabel) \o "_" \o name) \notin DOMAIN StartEnv

\* The positions of the trace at which dependency k injected the variable.
InjectionsOf(k, name) ==
    {p \in StepsOf("inject") :
        trace[p].dep = k /\ Lookup(trace[p].vars, name) # Undefined}

\* C34: when an earlier dependency has injected a variable that had neither
\* an ambient value nor an override at the start of the request, a later
\* dependency that declares the same variable resolves it to the value the
\* earlier one injected, whatever its own stack value is, and that value is
\* the one left in the process environment when the request has ended.
C34_EarlierDependencyWins ==
    /\ pc = "injecting" /\ idx > 1 =>
          \A i \in DOMAIN inspectionResult.environmentVariables :
              LET name == inspectionResult.environmentVariables[i].name
              IN  \A p \in InjectionsOf(1, name) :
                      AbsentAtStart(name) =>
                          Lookup(validation.resolved, name)
                              = Lookup(trace[p].vars, name)
    /\ Terminal =>
          \A p \in StepsOf("inject") : \A q \in StepsOf("inject") :
              p < q =>
                  \A i \in DOMAIN trace[p].vars :
                      LET name == trace[p].vars[i].name
                      IN  AbsentAtStart(name)
                          /\ Lookup(trace[q].vars, name) # Undefined =>
                              /\ Lookup(trace[q].vars, name)
                                     = trace[p].vars[i].value
                              /\ Get(env, name) = trace[p].vars[i].value

\* The second dependency declares DB_HOST with the stack value y after the
\* first one injected x, and resolves it to x.
C34_Witness ==
    /\ pc = "injecting" /\ idx = 2
    /\ AbsentAtStart("DB_HOST")
    /\ InjectionsOf(1, "DB_HOST") # {}
    /\ Lookup(inspectionResult.environmentVariables, "DB_HOST") = "y"
    /\ Lookup(validation.resolved, "DB_HOST") = "x"
    /\ Get(env, "DB_HOST") = "x"

\* C35: a variable that had an ambient value when the request started has
\* the same value while the request runs and after it ended, with success
\* or with failure; what the injection step writes for such a variable is
\* the ambient value.
C35_AmbientValuesKept ==
    trace # <<>> =>
        /\ \A name \in DOMAIN StartEnv : Get(env, name) = StartEnv[name]
        /\ \A p \in StepsOf("inject") : \A i \in DOMAIN trace[p].vars :
              trace[p].vars[i].name \in DOMAIN StartEnv =>
                  trace[p].vars[i].value = StartEnv[trace[p].vars[i].name]

\* C36: after a failure, whatever the dependencies processed before it
\* injected is still in the process environment: the catch block does not
\* restore the environment the request started with.
C36_InjectedVariablesSurviveFailure ==
    pc \in {"catch", "failed"} =>
        \A p \in StepsOf("inject") : \A i \in DOMAIN trace[p].vars :
            Get(env, trace[p].vars[i].name) = trace[p].vars[i].value

\* The request failed in the delegated local deployment after a variable
\* absent at the start was injected.
C36_Witness ==
    /\ pc = "failed"
    /\ thrown # NoError
    /\ trace[Len(trace)].op = "deployServiceLocal"
    /\ \E p \in StepsOf("inject") : \E i \in DOMAIN trace[p].vars :
          /\ trace[p].vars[i].name \notin DOMAIN StartEnv
          /\ Get(env, trace[p].vars[i].name) = trace[p].vars[i].value
    /\ env # StartEnv

-----------------------------------------------------------------------------
(* Properties of ServerlessPlugin.deployServiceLocal *)

\* The deployServiceLocal call has ended: it returned or it raised.
LocalEnded == lpc \in {"returned", "raised"}

\* C37: a call that has ended has emitted exactly one before:service-deploy
\* notification and, after it, exactly one after:service-deploy
\* notification, whose success flag is true exactly when the call returned
\* and false exactly when it raised, a failure to start the hot-reload
\* watcher included.
C37_OneBeforeOneAfterDeploy ==
    LocalEnded =>
        LET before == EventsOf("serverless:before:service-deploy")
            after  == EventsOf("serverless:after:service-deploy")
        IN  /\ Cardinality(before) = 1
            /\ Cardinality(after) = 1
            /\ \A p \in before : \A q \in after : p < q
            /\ \A q \in after : events[q].success <=> (lpc = "returned")

\* The CLI commands run so far, by their first argument.
CommandNames == [i \in DOMAIN commands |-> commands[i][1]]

\* The commands of a complete call, in order.
AllCommands ==
    IF options.dryRun THEN <<"--version", "package", "info">>
    ELSE <<"--version", "package", "deploy", "info">>

\* The sequence a begins the sequence b.
IsPrefix(a, b) == Len(a) <= Len(b) /\ SubSeq(b, 1, Len(a)) = a

\* The package command has succeeded.
Packaged == EventsOf("serverless:after:service-package") # {}

\* The call failed at the named command.
FailedAt(command) ==
    /\ lpc \in {"catch", "raised"}
    /\ commands # <<>>
    /\ CommandNames[Len(commands)] = command
    /\ localCaught # <<"watcher error">>

\* C40: the commands run are an initial part of --version, package, deploy,
\* info (without deploy under dryRun), all of them after the config-file
\* check; with a missing config file no command is run, with the CLI
\* unavailable nothing after --version, after a failed package nothing
\* after package, after a failed deploy nothing after deploy; deploy runs
\* only after package has succeeded, and a dryRun call that returns has run
\* package and info and emitted the success notification.
C40_StepsInFixedOrder ==
    /\ IsPrefix(CommandNames, AllCommands)
    /\ lpc \in {"called", "config"} => commands = <<>>
    /\ (~Truthy(service.configFile) \/ ~configExists) => commands = <<>>
    /\ (\E i \in DOMAIN commands : CommandNames[i] = "deploy") => Packaged
    /\ lpc \in {"catch", "raised"} /\ ~Packaged =>
          Len(commands) <= 2 /\ EventsOf("serverless:after:service-deploy")
                                   \subseteq {Len(events)}
    /\ FailedAt("--version") => ~Packaged /\ Len(commands) = 1
    /\ FailedAt("package") => ~Packaged
    /\ FailedAt("deploy") => Packaged /\ ~options.dryRun
    /\ lpc = "returned" =>
          /\ CommandNames = AllCommands
          /\ Packaged
          /\ \E q \in EventsOf("serverless:after:service-deploy") :
                events[q].success

\* A dryRun call has returned after --version, package and info.
C40_Witness ==
    /\ lpc = "returned"
    /\ options.dryRun
    /\ commands = << VersionArgs,
                     PackageArgs(options.stage, options.region),
                     InfoArgs(options.stage) >>
    /\ Packaged
    /\ events[Len(events)] =
          Event("serverless:after:service-deploy", TRUE, NoError)

-----------------------------------------------------------------------------
(* Properties of the plugin's lifetime *)

\* C38: under every interleaving of startWatching, stopWatching and error
\* callbacks, each watcher that was created and is not closed is the one
\* registered under its service name, so there is at most one open watcher
\* per service and none outside this.watchers.
C38_OpenWatchersAreRegistered ==
    \A w \in opened : watchers[w.service] = w

\* C39: after initialize and cleanup the plugin has no listener left on any
\* of the three event types it subscribed to, and none of its handlers ran
\* for an event delivered after cleanup.
C39_NoListenerAfterCleanup ==
    hpc = "cleaned" =>
        /\ listeners \cap SubscribedEvents = {}
        /\ \A i \in DOMAIN handled : ~handled[i].cleaned

-----------------------------------------------------------------------------
(* Properties of ServerlessPatternDetector.scan *)

\* The config file can be loaded: it is inside the project root, exists,
\* is not over 10 MiB, can be read, is YAML and is not empty.
Loads(f) ==
    /\ IsDescendant(f.path, Resolve(detectorRoot))
    /\ f.exists /\ f.size <= 10 * 1024 * 1024
    /\ f.readable /\ f.parseable
    /\ ~f.config.empty

\* The files of the list that can be loaded, in the order of the list.
Loaded == SelectSeq(found, Loads)

\* C29: scan does not raise because of a config file (it raises only when
\* the glob does, before any file is parsed); it notifies
\* before:pattern-detection first and after:pattern-detection last; and it
\* returns one service for each file that loaded, in the order the files
\* were found, named by the service key or else by the directory, with
\* servicesFound their number.
C29_UnloadableFilesAreSkipped ==
    /\ dpc \in {"called", "globbing", "parsing", "returned", "raised"}
    /\ dpc = "raised" => parsed = <<>> /\ pending = {}
    /\ dpc # "called" =>
          events[1] = [type |-> "serverless:before:pattern-detection",
                       projectRoot |-> detectorRoot]
    /\ dpc \in {"globbing", "parsing", "raised"} => Len(events) = 1
    /\ dpc = "returned" =>
          /\ Len(events) = 2
          /\ events[2].type = "serverless:after:pattern-detection"
          /\ events[2].pattern = pattern
          /\ events[2].servicesFound = Len(Loaded)
          /\ events[2].services =
                [i \in DOMAIN Loaded |-> pattern.services[i].name]
          /\ pattern.type = "serverless"
          /\ Len(pattern.services) = Len(Loaded)
          /\ \A i \in DOMAIN Loaded :
                /\ pattern.services[i].configFile = Loaded[i].path
                /\ pattern.services[i].name =
                      IF Loaded[i].config.service \in {Undefined, ""}
                      THEN Basename(Dirname(Loaded[i].path))
                      ELSE Loaded[i].config.service
                /\ pattern.services[i].provider = "serverless"

\* Between two files that loaded the glob found one that is not YAML: the
\* two services are reported in the order of their files.
C29_Witness ==
    /\ dpc = "returned"
    /\ Len(found) = 3
    /\ Loads(found[1]) /\ ~found[2].parseable /\ Loads(found[3])
    /\ events[2].servicesFound = 2
    /\ events[2].services = <<"api", "worker">>

=============================================================================
